---- MODULE Spec2Model ----
(***************************************************************************)
(* Model of the evaluation core of ml-service/eval_runner.py: the text,    *)
(* date and amount normalizers, the fuzzy text matcher, the amount         *)
(* reconciliation cascade, the greedy transaction matcher                  *)
(* (match_transactions), the metrics aggregator (compute_metrics) and the  *)
(* dataset run (evaluate_file, evaluate_dataset); of the benchmark scripts *)
(* (append_history, validate_benchmarks.main); and of the multi-page PDF   *)
(* extraction of local_extractor.py.  Each operation has a specification   *)
(* of its own over one set of variables; the variables of the operations   *)
(* that do not run keep their idle values.                                 *)
(*                                                                         *)
(* Representation.                                                         *)
(*  - A Python value that may be a missing key, None or a value is a       *)
(*    record whose field k is "absent", "none" or the kind of the value.   *)
(*  - A text is a tuple of one-character strings.                          *)
(*  - A date string is (shape, x, y, z): its punctuation shape and the     *)
(*    three numbers it is written with, in textual order.  "N-N-N" is      *)
(*    x-y-z, "N/N/N" is x/y/z, "N b N" is day, abbreviated month name,     *)
(*    year, "N B N" the same with the full month name; "junk" is a string  *)
(*    no number pattern describes (x identifies the string) and "empty"    *)
(*    is "".  A number >= 1000 is written with four digits, a number       *)
(*    below 100 with two, and a string has no surrounding whitespace, so   *)
(*    two date strings are equal exactly when their tuples are.            *)
(*  - An amount is an integer number of half-cents (1.0 is 200, 0.01 is   *)
(*    2); the float arithmetic of the source is modelled as exact          *)
(*    arithmetic on these.                                                 *)
(*  - A score or an amount error is a fraction [num, den] with den > 0,    *)
(*    an error in the unit of the amounts; den = 0 is float('inf').        *)
(***************************************************************************)
EXTENDS Integers, Sequences, FiniteSets, TLC

VARIABLES
    predicted,      \* match_transactions: the predicted list
    ground_truth,   \* match_transactions: the ground-truth list
    matches,        \* match_transactions: the result list built so far
    used_gt,        \* match_transactions: the consumed ground-truth indices
    pi,             \* position of the outer loop (predictions handled so far)
    pc,             \* the position of the operation under way
    metrics,        \* compute_metrics: the returned mapping, or NoMetrics
    pred_amt,       \* reconciliation input: normalized predicted amount
    gt_amt,         \* reconciliation input: normalized ground-truth amount
    amt_res,        \* reconciliation output, or NoAmtRes
    gt_count,       \* compute_metrics: the ground_truth_count argument
    history_file,   \* benchmark-history.json: absent, or its "runs" list
    history_log,    \* every run the history ever held or was given, in order
    history_calls,  \* the number of append_history calls so far
    bench_file,     \* benchmark-results.json, as validate_benchmarks reads it
    exit_code,      \* validate_benchmarks: the exit code, -1 while it runs
    ds_files,       \* evaluate_dataset: the *.gt.json files of test_dir, in glob order
    ds_i,           \* evaluate_dataset: the files the loop has handled
    ds_results,     \* evaluate_dataset: the results list
    ds_output,      \* evaluate_dataset: the output file
    ds_run,         \* the number of the evaluate_dataset run under way
    ds_first,       \* the outcome of the first evaluate_dataset run
    pdf_pages,      \* PDF extraction: the model's response for each page
    pdf_parallel,   \* PDF extraction: by extract_pdf_parallel, not extract_pdf
    pdf_i,          \* extract_pdf: the pages the loop has handled
    pdf_results,    \* extract_pdf_parallel: the page results the workers returned
    pdf_ret,        \* PDF extraction: all_transactions, errors and the returned mapping
    pdf_hint,       \* PDF extraction: the doc_type argument
    tasks,          \* concurrent match_transactions calls: the frame of each task
    nd_in,          \* normalize_date: the argument
    nd_out,         \* normalize_date: the returned value
    fz_pred,        \* fuzzy_match_score: the pred argument
    fz_truth,       \* fuzzy_match_score: the truth argument
    fz_out,         \* fuzzy_match_score: the returned score, -1 before the call
    lk_stem,        \* companion lookup: gt_file.stem of the ground-truth file
    lk_dir,         \* companion lookup: the document names in test_dir
    lk_doc,         \* companion lookup: doc_file, or NoDoc
    bt_files,       \* extract_batch: the uploaded files, in upload order
    bt_type,        \* extract_batch: the document_type form field
    bt_i,           \* extract_batch: the files the loop has handled
    bt_results      \* extract_batch: the results list

\* the variables of the matcher and of the reconciliation
coreVars == <<predicted, ground_truth, matches, used_gt, pi, metrics,
              pred_amt, gt_amt, amt_res>>

metricsVars == <<gt_count>>
historyVars == <<history_file, history_log, history_calls>>

validateVars == <<bench_file, exit_code>>
datasetVars == <<ds_files, ds_i, ds_results, ds_output, ds_run, ds_first>>
pdfVars == <<pdf_pages, pdf_hint, pdf_parallel, pdf_i, pdf_results, pdf_ret>>

taskVars == <<tasks>>

fnVars == <<nd_in, nd_out, fz_pred, fz_truth, fz_out>>

lookupVars == <<lk_stem, lk_dir, lk_doc>>
batchVars == <<bt_files, bt_type, bt_i, bt_results>>

\* the variables of the concurrent calls, of the normalizers, of the
\* companion lookup and of the batch endpoint
restVars == <<taskVars, fnVars, lookupVars, batchVars>>

\* the variables of the other operations
extVars == <<metricsVars, historyVars, validateVars, datasetVars, pdfVars, restVars>>

vars == <<coreVars, pc, extVars>>

\* ------------------------------------------------------------------ bounds

MaxPred == 2
MaxGt == 2

\* ------------------------------------------------------------- arithmetic

Abs(x) == IF x < 0 THEN -x ELSE x

Frac(n, d) == [num |-> n, den |-> d]
FracLess(a, b) == a.num * b.den < b.num * a.den
FracEq(a, b) == a.num * b.den = b.num * a.den

RECURSIVE Gcd(_, _)
Gcd(a, b) == IF b = 0 THEN a ELSE Gcd(b, a % b)

\* the fraction in lowest terms (the same number, in smaller integers)
Reduce(f) ==
    LET g == Gcd(Abs(f.num), f.den)
    IN  IF g = 0 THEN f ELSE Frac(f.num \div g, f.den \div g)

FracAdd(a, b) == Reduce(Frac(a.num * b.den + b.num * a.den, a.den * b.den))
FracMul(a, b) == Reduce(Frac(a.num * b.num, a.den * b.den))
FracDiv(a, b) == Reduce(Frac(a.num * b.den, a.den * b.num))

\* ------------------------------------------------------- Python values

NoText == <<>>
AbsentText == [k |-> "absent", s |-> NoText]
NoneText == [k |-> "none", s |-> NoText]
Str(s) == [k |-> "str", s |-> s]

AbsentDate == [k |-> "absent", shape |-> "empty", x |-> 0, y |-> 0, z |-> 0]
NoneDate == [k |-> "none", shape |-> "empty", x |-> 0, y |-> 0, z |-> 0]
DateStr(shape, x, y, z) == [k |-> "str", shape |-> shape, x |-> x, y |-> y, z |-> z]
EmptyDateStr == DateStr("empty", 0, 0, 0)

AbsentAmt == [k |-> "absent", n |-> 0]
NoneAmt == [k |-> "none", n |-> 0]
Num(n) == [k |-> "num", n |-> n]

\* dict.get(key, default): the value under the key when the key is present
\* (None included), the default otherwise
Get(value, default) == IF value.k = "absent" THEN default ELSE value

\* ---------------------------------------------------------- normalize_text

IsSpace(c) == c = " "

IsWordChar(c) == c \in {"a", "b", "c", "d", "A", "B", "C", "D", "1", "2", "_"}

LowerChar(c) ==
    CASE c = "A" -> "a"
      [] c = "B" -> "b"
      [] c = "C" -> "c"
      [] c = "D" -> "d"
      [] OTHER -> c

\* str.lower()
Lower(s) == [i \in 1..Len(s) |-> LowerChar(s[i])]

RECURSIVE LStrip(_)
LStrip(s) == IF s # <<>> /\ IsSpace(Head(s)) THEN LStrip(Tail(s)) ELSE s

RECURSIVE RStrip(_)
RStrip(s) ==
    IF s # <<>> /\ IsSpace(s[Len(s)]) THEN RStrip(SubSeq(s, 1, Len(s) - 1)) ELSE s

\* str.strip()
Strip(s) == RStrip(LStrip(s))

\* re.sub(r'\s+', ' ', text): every maximal run of whitespace becomes one space
RECURSIVE CollapseSpaces(_)
CollapseSpaces(s) ==
    IF s = <<>> THEN <<>>
    ELSE IF IsSpace(Head(s))
         THEN <<" ">> \o CollapseSpaces(LStrip(s))
         ELSE <<Head(s)>> \o CollapseSpaces(Tail(s))

KeepChar(c) == IsWordChar(c) \/ IsSpace(c)

\* re.sub(r'[^\w\s]', '', text)
RemovePunct(s) == SelectSeq(s, KeepChar)

\* normalize_text: "" for None or "", else lower, strip, collapse, unpunctuate
normalize_text(text) ==
    IF text.k # "str" \/ text.s = <<>> THEN <<>>
    ELSE RemovePunct(CollapseSpaces(Strip(Lower(text.s))))

\* ------------------------------------------------------- fuzzy_match_score

\* a in b, for Python strings
IsSubstring(a, b) ==
    \E i \in 0..(Len(b) - Len(a)) : SubSeq(b, i + 1, i + Len(a)) = a

\* the first whitespace-delimited token of a text that starts with none
RECURSIVE FirstToken(_)
FirstToken(s) ==
    IF s = <<>> \/ IsSpace(Head(s)) THEN <<>> ELSE <<Head(s)>> \o FirstToken(Tail(s))

\* set(text.split())
RECURSIVE Tokens(_)
Tokens(s) ==
    LET t == LStrip(s) IN
    IF t = <<>> THEN {}
    ELSE LET w == FirstToken(t) IN {w} \cup Tokens(SubSeq(t, Len(w) + 1, Len(t)))

\* Jaccard with the size of the first token set as denominator
MutJaccardOverlap(ptoks, ttoks) ==
    Frac(Cardinality(ptoks \cap ttoks), Cardinality(ptoks))

\* len(intersection) / len(union)
Jaccard(ptoks, ttoks) ==
    Frac(Cardinality(ptoks \cap ttoks), Cardinality(ptoks \cup ttoks))

fuzzy_match_score(pred, truth) ==
    LET p == normalize_text(pred)
        t == normalize_text(truth)
    IN  IF p = <<>> \/ t = <<>> THEN Frac(0, 1)
        ELSE IF p = t THEN Frac(1, 1)
        ELSE IF IsSubstring(p, t) \/ IsSubstring(t, p) THEN Frac(9, 10)
        ELSE IF Tokens(p) = {} \/ Tokens(t) = {} THEN Frac(0, 1)
        ELSE Jaccard(Tokens(p), Tokens(t))

\* ----------------------------------------------------------- normalize_date

\* the formats list with month-first before day-first
MutFormatsMonthFirst ==
    <<"%Y-%m-%d", "%m/%d/%Y", "%d/%m/%Y", "%Y/%m/%d", "%d-%m-%Y", "%d %b %Y", "%d %B %Y">>

\* the formats list, in the order it is tried
Formats == <<"%Y-%m-%d", "%d/%m/%Y", "%m/%d/%Y", "%Y/%m/%d", "%d-%m-%Y",
             "%d %b %Y", "%d %B %Y">>

\* the punctuation a format requires of the string
FormatShape(fmt) ==
    CASE fmt \in {"%Y-%m-%d", "%d-%m-%Y"} -> "N-N-N"
      [] fmt \in {"%d/%m/%Y", "%m/%d/%Y", "%Y/%m/%d"} -> "N/N/N"
      [] fmt = "%d %b %Y" -> "N b N"
      [] fmt = "%d %B %Y" -> "N B N"

\* the (year, month, day) a format reads from the three numbers of a string
FormatFields(fmt, s) ==
    CASE fmt \in {"%Y-%m-%d", "%Y/%m/%d"} -> [year |-> s.x, month |-> s.y, day |-> s.z]
      [] fmt = "%m/%d/%Y" -> [year |-> s.z, month |-> s.x, day |-> s.y]
      [] OTHER -> [year |-> s.z, month |-> s.y, day |-> s.x]

IsLeap(y) == (y % 4 = 0 /\ y % 100 # 0) \/ y % 400 = 0

DaysInMonth(y, m) ==
    IF m = 2 THEN (IF IsLeap(y) THEN 29 ELSE 28)
    ELSE IF m \in {4, 6, 9, 11} THEN 30 ELSE 31

\* datetime.strptime(date_str.strip(), fmt) does not raise ValueError: %Y is
\* four digits, %m and %d one or two, and the day exists in that month
Parses(s, fmt) ==
    LET f == FormatFields(fmt, s) IN
    /\ s.shape = FormatShape(fmt)
    /\ f.year >= 1000 /\ f.year <= 9999
    /\ f.month >= 1 /\ f.month <= 12
    /\ f.day >= 1 /\ f.day <= DaysInMonth(f.year, f.month)

\* dt.strftime("%Y-%m-%d")
Strftime(f) == DateStr("N-N-N", f.year, f.month, f.day)

\* the for loop over formats[i..]: the first format that parses decides, and
\* the input is returned as it is when none does
RECURSIVE TryFormats(_, _)
TryFormats(date_str, i) ==
    IF i > Len(Formats) THEN date_str
    ELSE IF Parses(date_str, Formats[i]) THEN Strftime(FormatFields(Formats[i], date_str))
    ELSE TryFormats(date_str, i + 1)

\* not x, for x a string or None
Falsy(d) == d.k # "str" \/ d.shape = "empty"

normalize_date(date_str) ==
    IF Falsy(date_str) THEN NoneDate ELSE TryFormats(date_str, 1)

\* --------------------------------------------------------- normalize_amount

\* None stays None and a number becomes a float
normalize_amount(amount) == IF amount.k = "num" THEN Num(amount.n) ELSE NoneAmt

\* ------------------------------------- match_transactions: reconciliation

\* the amount whole + halfcents * 0.005, in the model's unit of 0.005
Amt(whole, halfcents) == whole * 200 + halfcents

\* x / g < 1 / inv, for x >= 0 and g > 0 (as inv * x < g, without the product)
RatioBelow(x, g, inv) == x <= (g - 1) \div inv

\* amount_tolerance_pct = 0.01, as the relative error's denominator
TolerancePctInv == 100

\* float('inf'): the amount error of a pair with a missing amount
Inf == Frac(1, 0)

\* abs(pred_amt), abs(gt_amt)
AbsAmt(a) == Abs(a)

\* RawError without the abs
MutRawErrorSigned(p, g) == Frac(p - g, 1)

\* amount_error = abs(pred_abs - gt_abs)
RawError(p, g) == Frac(Abs(p - g), 1)

\* abs(pred_abs - gt_abs) < 0.01
TightTolerance(p, g) == Abs(p - g) < Amt(0, 2)

\* gt_abs != 0 and abs(pred_abs - gt_abs) / gt_abs < amount_tolerance_pct
RelTolerance(p, g) == g # 0 /\ RatioBelow(Abs(p - g), g, TolerancePctInv)

\* abs(pred_abs - gt_abs * 100) < 0.01
Scale100(p, g) == Abs(p - g * 100) < Amt(0, 2)

\* Scale100Inv with the factor 10 for 100
MutScale100InvFactor(p, g) == Abs(p * 10 - g) < Amt(0, 2)

\* abs(pred_abs * 100 - gt_abs) < 0.01
Scale100Inv(p, g) == Abs(p * 100 - g) < Amt(0, 2)

\* gt_abs > 1000 and abs(pred_abs * 1000 - gt_abs) / gt_abs < 0.01
Scale1000(p, g) == g > Amt(1000, 0) /\ RatioBelow(Abs(p * 1000 - g), g, 100)

\* pred_abs > 1000 and abs(pred_abs - gt_abs * 1000) / pred_abs < 0.01
Scale1000Inv(p, g) == p > Amt(1000, 0) /\ RatioBelow(Abs(p - g * 1000), p, 100)

\* gt_abs > 100 and pred_abs < 1000
UnitVsTotalGuard(p, g) == g > Amt(100, 0) /\ p < Amt(1000, 0)

\* for mult in [2, 3, 4, 5, 10]
Multipliers == <<2, 3, 4, 5, 10>>

\* MultiplierFits with a tolerance of 1% for 5%
MutMultiplierFitsTight(p, g, mult) == RatioBelow(Abs(p * mult * 1000 - g), g, 100)

\* abs(pred_abs * mult * 1000 - gt_abs) / gt_abs < 0.05
MultiplierFits(p, g, mult) == RatioBelow(Abs(p * mult * 1000 - g), g, 20)

AmtRes(m, e) == [amount_match |-> m, amount_error |-> e]

\* the for loop over the multipliers: the first that fits sets the match and
\* the error 0, and the pair stays unmatched with its raw error when none does
UnitVsTotal(p, g) ==
    IF \E i \in 1..Len(Multipliers) : MultiplierFits(p, g, Multipliers[i])
    THEN AmtRes(TRUE, Frac(0, 1))
    ELSE AmtRes(FALSE, RawError(p, g))

\* abs(pred_abs / 100 - gt_abs)
Scale100Error(p, g) == Frac(Abs(p - 100 * g), 100)

\* abs(pred_abs - gt_abs / 100)
Scale100InvError(p, g) == Frac(Abs(100 * p - g), 100)

\* abs(pred_abs - gt_abs / 1000)
Scale1000Error(p, g) == Frac(Abs(1000 * p - g), 1000)

\* abs(pred_abs / 1000 - gt_abs)
Scale1000InvError(p, g) == Frac(Abs(p - 1000 * g), 1000)

\* Cascade with the 100x rules tried before the tolerance rules
MutCascadeScaleFirst(p, g) ==
    IF Scale100(p, g) THEN AmtRes(TRUE, Scale100Error(p, g))
    ELSE IF Scale100Inv(p, g) THEN AmtRes(TRUE, Scale100InvError(p, g))
    ELSE IF TightTolerance(p, g) THEN AmtRes(TRUE, RawError(p, g))
    ELSE IF RelTolerance(p, g) THEN AmtRes(TRUE, RawError(p, g))
    ELSE IF Scale1000(p, g) THEN AmtRes(TRUE, Scale1000Error(p, g))
    ELSE IF Scale1000Inv(p, g) THEN AmtRes(TRUE, Scale1000InvError(p, g))
    ELSE IF UnitVsTotalGuard(p, g) THEN UnitVsTotal(p, g)
    ELSE AmtRes(FALSE, RawError(p, g))

\* the if / elif cascade over the absolute values p and g
Cascade(p, g) ==
    IF TightTolerance(p, g) THEN AmtRes(TRUE, RawError(p, g))
    ELSE IF RelTolerance(p, g) THEN AmtRes(TRUE, RawError(p, g))
    ELSE IF Scale100(p, g) THEN AmtRes(TRUE, Scale100Error(p, g))
    ELSE IF Scale100Inv(p, g) THEN AmtRes(TRUE, Scale100InvError(p, g))
    ELSE IF Scale1000(p, g) THEN AmtRes(TRUE, Scale1000Error(p, g))
    ELSE IF Scale1000Inv(p, g) THEN AmtRes(TRUE, Scale1000InvError(p, g))
    ELSE IF UnitVsTotalGuard(p, g) THEN UnitVsTotal(p, g)
    ELSE AmtRes(FALSE, RawError(p, g))

\* Reconcile without the abs of the predicted amount
MutReconcileSignedPred(pa, ga) ==
    IF pa.k = "num" /\ ga.k = "num"
    THEN Cascade(pa.n, AbsAmt(ga.n))
    ELSE AmtRes(FALSE, Inf)

\* amount_match and amount_error of a candidate pair
Reconcile(pa, ga) ==
    IF pa.k = "num" /\ ga.k = "num"
    THEN Cascade(AbsAmt(pa.n), AbsAmt(ga.n))
    ELSE AmtRes(FALSE, Inf)

\* ------------------------------------------- match_transactions: the loops

\* pred.get("date", "")
DateOf(rec) == Get(rec.date, EmptyDateStr)

\* DescOf that prefers merchant to description
MutDescOfMerchantFirst(rec) == Get(rec.merchant, Get(rec.description, Str(<<>>)))

\* pred.get("description", pred.get("merchant", ""))
DescOf(rec) == Get(rec.description, Get(rec.merchant, Str(<<>>)))

\* pred.get("amount", pred.get("total"))
AmountOf(rec) == Get(rec.amount, Get(rec.total, NoneAmt))

\* DateMatch without the `if pred_date and gt_date` guard
MutDateMatchUnguarded(pd, gd) == pd = gd

\* pred_date == gt_date if pred_date and gt_date else False
DateMatch(pd, gd) == IF ~Falsy(pd) /\ ~Falsy(gd) THEN pd = gd ELSE FALSE

Flag(b) == IF b THEN 1 ELSE 0

\* Score with the weights 0.25 date + 0.5 description + 0.25 amount
MutScoreDescHeavy(dm, ds, am) ==
    Frac(25 * Flag(dm) * ds.den + 50 * ds.num + 25 * Flag(am) * ds.den, 100 * ds.den)

\* the composite score 0.3 date + 0.4 description + 0.3 amount
Score(dm, ds, am) ==
    Frac(3 * Flag(dm) * ds.den + 4 * ds.num + 3 * Flag(am) * ds.den, 10 * ds.den)

\* AboveThreshold with the threshold at 0.3
MutAboveThresholdLow(score) == FracLess(Frac(3, 10), score)

\* AboveThreshold with >= for >
MutAboveThresholdInclusive(score) == ~FracLess(score, Frac(5, 10))

\* score > 0.5
AboveThreshold(score) == FracLess(Frac(5, 10), score)

\* score > best_score and score > 0.5
Better(score, best_score) == FracLess(best_score, score) /\ AboveThreshold(score)

\* Consumed with the `i in used_gt` test lost
MutConsumedNever(i, used) == FALSE

\* i in used_gt
Consumed(i, used) == i \in used

\* FiniteError that keeps the +infinity sentinel
MutFiniteErrorKeep(e) == e

\* amount_error if amount_error != float('inf') else 0
FiniteError(e) == IF e # Inf THEN e ELSE Frac(0, 1)

\* a TransactionMatch; gt_idx is the ground-truth entry it refers to, 0 for None
Result(pred, idx, dm, ds, am, err) ==
    [predicted |-> pred, gt_idx |-> idx, date_match |-> dm,
     description_match |-> ds, amount_match |-> am, amount_error |-> err]

\* the TransactionMatch of the else branch
Unmatched(pred) == Result(pred, 0, FALSE, Frac(0, 1), FALSE, Frac(0, 1))

\* the scores of one candidate pair
Candidate(pred, gt, i) ==
    LET dm == DateMatch(normalize_date(DateOf(pred)), normalize_date(DateOf(gt)))
        ds == fuzzy_match_score(DescOf(pred), DescOf(gt))
        ar == Reconcile(normalize_amount(AmountOf(pred)), normalize_amount(AmountOf(gt)))
    IN  [score |-> Score(dm, ds, ar.amount_match),
         match |-> Result(pred, i, dm, ds, ar.amount_match, FiniteError(ar.amount_error))]

\* best_match = None, best_score = 0.0
NoBest(pred) == [score |-> Frac(0, 1), match |-> Unmatched(pred)]

\* the inner loop from ground-truth index i on
RECURSIVE Scan(_, _, _, _, _)
Scan(pred, gts, used, i, best) ==
    IF i > Len(gts) THEN best
    ELSE IF Consumed(i, used) THEN Scan(pred, gts, used, i + 1, best)
    ELSE LET c == Candidate(pred, gts[i], i) IN
         IF Better(c.score, best.score)
         THEN Scan(pred, gts, used, i + 1, c)
         ELSE Scan(pred, gts, used, i + 1, best)

\* MarkConsumed that forgets the earlier entries
MutMarkConsumedReplace(used, idx) == {idx}

\* used_gt.add(best_idx)
MarkConsumed(used, idx) == used \cup {idx}

\* matches.append(best_match)
EmitMatch(ms, m) == Append(ms, m)

\* EmitUnmatched that drops the prediction
MutEmitUnmatchedDrop(ms, pred) == ms

\* matches.append(TransactionMatch(predicted=pred, ground_truth=None, ...))
EmitUnmatched(ms, pred) == Append(ms, Unmatched(pred))

\* ---------------------------------------------------------- compute_metrics

\* IsMatched that counts the unmatched results too
MutIsMatchedAlways(m) == TRUE

\* m.ground_truth is not None
IsMatched(m) == m.gt_idx # 0

\* HasDateMatch that ignores the flag
MutHasDateMatchAlways(m) == TRUE

HasDateMatch(m) == m.date_match

HasAmountMatch(m) == m.amount_match

\* sum(m.description_match for m in matched)
RECURSIVE SumDescription(_)
SumDescription(ms) ==
    IF ms = <<>> THEN Frac(0, 1)
    ELSE FracAdd(Head(ms).description_match, SumDescription(Tail(ms)))

\* sum(m.amount_error for m in matched)
RECURSIVE SumError(_)
SumError(ms) ==
    IF ms = <<>> THEN Frac(0, 1)
    ELSE FracAdd(Head(ms).amount_error, SumError(Tail(ms)))

Zero == Frac(0, 1)

\* ZeroMetrics with a recall of 1
MutZeroMetricsRecallOne ==
    [matched_count |-> 0, precision |-> Zero, recall |-> Frac(1, 1), f1 |-> Zero,
     date_accuracy |-> Zero, description_accuracy |-> Zero,
     amount_accuracy |-> Zero, amount_mae |-> Zero]

\* the mapping returned for an empty matches list
ZeroMetrics ==
    [matched_count |-> 0, precision |-> Zero, recall |-> Zero, f1 |-> Zero,
     date_accuracy |-> Zero, description_accuracy |-> Zero,
     amount_accuracy |-> Zero, amount_mae |-> Zero]

compute_metrics(ms, ground_truth_count) ==
    IF ms = <<>> THEN ZeroMetrics
    ELSE
    LET matched == SelectSeq(ms, IsMatched)
        matched_count == Len(matched)
        precision == Frac(matched_count, Len(ms))
        recall == IF ground_truth_count # 0
                  THEN Frac(matched_count, ground_truth_count) ELSE Zero
        f1 == IF FracLess(Zero, FracAdd(precision, recall))
              THEN FracDiv(FracMul(Frac(2, 1), FracMul(precision, recall)),
                           FracAdd(precision, recall))
              ELSE Zero
        sumd == SumDescription(matched)
        sume == SumError(matched)
    IN  [matched_count |-> matched_count,
         precision |-> precision,
         recall |-> recall,
         f1 |-> f1,
         date_accuracy |->
            IF matched_count # 0
            THEN Frac(Len(SelectSeq(matched, HasDateMatch)), matched_count) ELSE Zero,
         description_accuracy |->
            IF matched_count # 0 THEN Frac(sumd.num, sumd.den * matched_count) ELSE Zero,
         amount_accuracy |->
            IF matched_count # 0
            THEN Frac(Len(SelectSeq(matched, HasAmountMatch)), matched_count) ELSE Zero,
         amount_mae |->
            IF matched_count # 0 THEN Frac(sume.num, sume.den * matched_count) ELSE Zero]

\* no metrics computed yet
NoMetrics == [ZeroMetrics EXCEPT !.matched_count = -1]

\* --------------------------------------------------------------- the inputs

Rec(date, description, merchant, amount, total) ==
    [date |-> date, description |-> description, merchant |-> merchant,
     amount |-> amount, total |-> total]

TextABC == <<"a", " ", "b", " ", "c">>                  \* "a b c"
TextCBD == <<"c", " ", "b", " ", "d">>                  \* "c b d"
TextAB == <<"a", " ", "b">>                             \* "a b"
TextNoisy == <<" ", "A", " ", " ", "b", " ", "c", "#">> \* " A  b c#"

DateIso == DateStr("N-N-N", 2024, 1, 15)     \* "2024-01-15"
DateDayFirst == DateStr("N/N/N", 15, 1, 2024) \* "15/01/2024"
DateJunk == DateStr("junk", 1, 0, 0)          \* "not a date"

\* the predicted records the model draws from
PredRecords ==
    { Rec(DateIso, Str(TextABC), AbsentText, Num(Amt(28, 100)), AbsentAmt),
      Rec(DateDayFirst, Str(TextAB), AbsentText, Num(-Amt(2850, 0)), AbsentAmt),
      Rec(DateJunk, AbsentText, Str(TextNoisy), Num(Amt(5, 0)), AbsentAmt),
      Rec(DateIso, Str(TextCBD), AbsentText, AbsentAmt, AbsentAmt),
      Rec(AbsentDate, Str(TextABC), AbsentText, Num(Amt(28, 100)), AbsentAmt) }

\* the ground-truth records the model draws from
GtRecords ==
    { Rec(DateIso, Str(TextABC), AbsentText, Num(Amt(28, 100)), AbsentAmt),
      Rec(DateIso, Str(TextCBD), AbsentText, AbsentAmt, Num(Amt(28, 100))),
      Rec(DateJunk, Str(TextABC), AbsentText, Num(Amt(28, 100)), AbsentAmt),
      Rec(NoneDate, Str(TextABC), AbsentText, Num(Amt(28, 100)), AbsentAmt) }

\* the sequences over S of length at most n
SeqsUpTo(S, n) == UNION {[1..k -> S] : k \in 0..n}

\* the normalized amounts the reconciliation is applied to
AmtValues ==
    {Amt(0, 0), Amt(0, 1), Amt(0, 100), Amt(1, 0), Amt(1, 1), Amt(1, 100),
     Amt(5, 0), Amt(28, 100), -Amt(28, 100), Amt(50, 0), Amt(100, 0),
     Amt(101, 0), Amt(1040, 0), Amt(1500, 0), Amt(1505, 0), Amt(2000, 0),
     Amt(2200, 0), Amt(2850, 0)}

AmtInputs == {Num(n) : n \in AmtValues} \cup {NoneAmt}

\* amt_res before the reconciliation has run
NoAmtRes == AmtRes(TRUE, Inf)

\* the variables of the other operations, while none of them runs
MetricsIdle == gt_count = 0

\* no history file
NoHistoryFile == [exists |-> FALSE, has_runs |-> FALSE, runs |-> <<>>]

HistoryIdle ==
    /\ history_file = NoHistoryFile
    /\ history_log = <<>>
    /\ history_calls = 0

\* a key that is missing from a JSON object, and a key that holds null
NoKey == [k |-> "absent", n |-> 0]
Null == [k |-> "none", n |-> 0]

CheckKeys == {"f1_score", "amount_accuracy", "date_accuracy", "description_accuracy"}

\* no benchmark file
NoBenchFile ==
    [exists |-> FALSE, thresholds |-> [c \in CheckKeys |-> NoKey],
     overall |-> [c \in CheckKeys |-> NoKey], other_keys |-> FALSE]

ValidateIdle ==
    /\ bench_file = NoBenchFile
    /\ exit_code = -1

\* an output file that was not written
NoOutput == [path |-> FALSE, written |-> FALSE, data |-> <<>>]

\* no run has finished
NoRun == [outcome |-> "none", results |-> <<>>, output |-> NoOutput]

DatasetIdle ==
    /\ ds_files = <<>>
    /\ ds_i = 0
    /\ ds_results = <<>>
    /\ ds_output = NoOutput
    /\ ds_run = 0
    /\ ds_first = NoRun

\* all_transactions = [], errors = [], nothing returned
NoPdfRet ==
    [transactions |-> <<>>, errors |-> <<>>, errors_none |-> FALSE, page_count |-> 0]

PdfIdle ==
    /\ pdf_pages = <<>>
    /\ pdf_hint = "auto"
    /\ pdf_parallel = FALSE
    /\ pdf_i = 0
    /\ pdf_results = {}
    /\ pdf_ret = NoPdfRet

\* no task has called match_transactions
NoTask ==
    [predicted |-> <<>>, ground_truth |-> <<>>, matches |-> <<>>, used_gt |-> {},
     pi |-> 0, pc |-> "idle", calls |-> 0]

TasksIdle == tasks = <<>>

\* fz_out before fuzzy_match_score has run
NoScore == Frac(-1, 1)

FnIdle ==
    /\ nd_in = NoneDate
    /\ nd_out = NoneDate
    /\ fz_pred = NoneText
    /\ fz_truth = NoneText
    /\ fz_out = NoScore

\* doc_file = None
NoDoc == <<>>

LookupIdle ==
    /\ lk_stem = <<>>
    /\ lk_dir = {}
    /\ lk_doc = NoDoc

BatchIdle ==
    /\ bt_files = <<>>
    /\ bt_type = "receipt"
    /\ bt_i = 0
    /\ bt_results = <<>>

RestIdle == TasksIdle /\ FnIdle /\ LookupIdle /\ BatchIdle

ExtIdle ==
    /\ MetricsIdle /\ HistoryIdle /\ ValidateIdle /\ DatasetIdle /\ PdfIdle
    /\ RestIdle

\* ------------------------------------------------ match_transactions, stepwise

Init ==
    /\ predicted \in SeqsUpTo(PredRecords, MaxPred)
    /\ ground_truth \in SeqsUpTo(GtRecords, MaxGt)
    /\ matches = <<>>
    /\ used_gt = {}
    /\ pi = 0
    /\ pc = "match"
    /\ metrics = NoMetrics
    /\ pred_amt = NoneAmt
    /\ gt_amt = NoneAmt
    /\ amt_res = NoAmtRes
    /\ ExtIdle

\* one iteration of `for pred in predicted`
MatchStep ==
    /\ pc = "match"
    /\ pi < Len(predicted)
    /\ LET pred == predicted[pi + 1]
           best == Scan(pred, ground_truth, used_gt, 1, NoBest(pred))
       IN  IF IsMatched(best.match)
           THEN /\ matches' = EmitMatch(matches, best.match)
                /\ used_gt' = MarkConsumed(used_gt, best.match.gt_idx)
           ELSE /\ matches' = EmitUnmatched(matches, pred)
                /\ used_gt' = used_gt
    /\ pi' = pi + 1
    /\ UNCHANGED <<predicted, ground_truth, pc, metrics, pred_amt, gt_amt, amt_res>>
    /\ UNCHANGED extVars

\* return matches
MatchReturn ==
    /\ pc = "match"
    /\ pi = Len(predicted)
    /\ pc' = "matched"
    /\ UNCHANGED <<predicted, ground_truth, matches, used_gt, pi, metrics,
                   pred_amt, gt_amt, amt_res>>
    /\ UNCHANGED extVars

\* evaluate_file: metrics = compute_metrics(matches, len(ground_truth))
ComputeMetrics ==
    /\ pc = "matched"
    /\ metrics' = compute_metrics(matches, Len(ground_truth))
    /\ pc' = "done"
    /\ UNCHANGED <<predicted, ground_truth, matches, used_gt, pi,
                   pred_amt, gt_amt, amt_res>>
    /\ UNCHANGED extVars

Next == MatchStep \/ MatchReturn \/ ComputeMetrics

Spec == Init /\ [][Next]_vars

\* --------------------------------------- the reconciliation as a pure function

InitAmount ==
    /\ predicted = <<>>
    /\ ground_truth = <<>>
    /\ matches = <<>>
    /\ used_gt = {}
    /\ pi = 0
    /\ pc = "amount"
    /\ metrics = NoMetrics
    /\ pred_amt \in AmtInputs
    /\ gt_amt \in AmtInputs
    /\ amt_res = NoAmtRes
    /\ ExtIdle

\* the amount block of the inner loop, applied to one candidate pair
ReconcileStep ==
    /\ pc = "amount"
    /\ amt_res' = Reconcile(pred_amt, gt_amt)
    /\ pc' = "reconciled"
    /\ UNCHANGED <<predicted, ground_truth, matches, used_gt, pi, metrics,
                   pred_amt, gt_amt>>
    /\ UNCHANGED extVars

NextAmount == ReconcileStep

SpecAmount == InitAmount /\ [][NextAmount]_vars

\* the variables of the matcher and of the reconciliation, while neither runs
CoreIdle ==
    /\ predicted = <<>>
    /\ ground_truth = <<>>
    /\ matches = <<>>
    /\ used_gt = {}
    /\ pi = 0
    /\ metrics = NoMetrics
    /\ pred_amt = NoneAmt
    /\ gt_amt = NoneAmt
    /\ amt_res = NoAmtRes

\* ------------------------------------- compute_metrics as a pure function

MaxMatches == 3
MaxGtCount == 3

\* the prediction the results of MetricResults carry
AnyPred == Rec(DateIso, Str(TextABC), AbsentText, Num(Amt(28, 100)), AbsentAmt)

\* the TransactionMatch values compute_metrics is applied to: an unmatched
\* result and matched results with each flag set and clear, description
\* scores of 1, 0.9 and 0.5 and amount errors of 0, 0.005 and 23.5
MetricResults ==
    { Unmatched(AnyPred),
      Result(AnyPred, 1, TRUE, Frac(1, 1), TRUE, Zero),
      Result(AnyPred, 1, FALSE, Frac(9, 10), FALSE, Frac(Amt(23, 100), 1)),
      Result(AnyPred, 2, TRUE, Frac(1, 2), FALSE, Zero),
      Result(AnyPred, 2, FALSE, Frac(1, 2), TRUE, Frac(Amt(0, 1), 1)) }

InitMetrics ==
    /\ predicted = <<>>
    /\ ground_truth = <<>>
    /\ matches \in SeqsUpTo(MetricResults, MaxMatches)
    /\ used_gt = {}
    /\ pi = 0
    /\ pc = "metrics"
    /\ metrics = NoMetrics
    /\ pred_amt = NoneAmt
    /\ gt_amt = NoneAmt
    /\ amt_res = NoAmtRes
    /\ gt_count \in 0..MaxGtCount
    /\ HistoryIdle
    /\ ValidateIdle
    /\ DatasetIdle
    /\ PdfIdle
    /\ RestIdle

\* metrics = compute_metrics(matches, ground_truth_count)
MeasureStep ==
    /\ pc = "metrics"
    /\ metrics' = compute_metrics(matches, gt_count)
    /\ pc' = "measured"
    /\ UNCHANGED <<predicted, ground_truth, matches, used_gt, pi,
                   pred_amt, gt_amt, amt_res>>
    /\ UNCHANGED extVars

NextMetrics == MeasureStep

SpecMetrics == InitMetrics /\ [][NextMetrics]_vars

\* ------------------------------------------------------------ append_history

MaxCalls == 52
MaxPrior == 2

\* Keep last 50 runs
HistoryCap == 50

\* the history entry of the n-th run: its run_id (the other fields of the
\* entry are not read back by append_history)
Entry(n) == [run_id |-> n]

\* the runs found in the file at the start, oldest first: -k+1, ..., 0
PriorRuns(k) == [i \in 1..k |-> Entry(i - k)]

\* a history file that holds the given runs
FileWithRuns(runs) == [exists |-> TRUE, has_runs |-> TRUE, runs |-> runs]

\* a history file that is a JSON object without a "runs" key
FileWithoutRuns == [exists |-> TRUE, has_runs |-> FALSE, runs |-> <<>>]

\* load_json(HISTORY_PATH) followed by `if "runs" not in history`: the runs
\* list the new entry is appended to
LoadRuns(file) == IF file.exists /\ file.has_runs THEN file.runs ELSE <<>>

\* TrimRuns that keeps the oldest entries
MutTrimRunsOldest(runs) ==
    IF Len(runs) > HistoryCap THEN SubSeq(runs, 1, HistoryCap) ELSE runs

\* if len(history["runs"]) > 50: history["runs"] = history["runs"][-50:]
TrimRuns(runs) ==
    IF Len(runs) > HistoryCap
    THEN SubSeq(runs, Len(runs) - HistoryCap + 1, Len(runs))
    ELSE runs

InitHistory ==
    /\ CoreIdle
    /\ RestIdle
    /\ MetricsIdle
    /\ pc = "history"
    /\ history_file \in {NoHistoryFile, FileWithoutRuns}
                           \cup {FileWithRuns(PriorRuns(k)) : k \in 0..MaxPrior}
    /\ history_log = LoadRuns(history_file)
    /\ history_calls = 0
    /\ ValidateIdle
    /\ DatasetIdle
    /\ PdfIdle

\* one call of append_history(new_results, run_id)
AppendHistory ==
    /\ pc = "history"
    /\ history_calls < MaxCalls
    /\ LET entry == Entry(history_calls + 1) IN
       /\ history_file' = FileWithRuns(TrimRuns(Append(LoadRuns(history_file), entry)))
       /\ history_log' = Append(history_log, entry)
    /\ history_calls' = history_calls + 1
    /\ UNCHANGED <<coreVars, restVars, pc, metricsVars, pdfVars, validateVars, datasetVars>>

NextHistory == AppendHistory

SpecHistory == InitHistory /\ [][NextHistory]_vars

\* ------------------------------------------------- validate_benchmarks.main

\* the values a threshold is given as: no key, null, or the number 1
ThresholdValues == {NoKey, Null, Num(1)}

\* the values a result is given as: no key, null, or a number below, at or
\* above the threshold
ResultValues == {NoKey, Null, Num(0), Num(1), Num(2)}

\* a benchmark file with the given "thresholds" and "results"."overall";
\* other_keys says whether overall holds keys that are not checked
BenchFile(thresholds, overall, other_keys) ==
    [exists |-> TRUE, thresholds |-> thresholds, overall |-> overall,
     other_keys |-> other_keys]

\* dict.get(key): None for a missing key
GetOrNone(value) == Get(value, Null)

\* not results: the overall mapping has no key at all
NoResults(file) == ~file.other_keys /\ \A c \in CheckKeys : file.overall[c].k = "absent"

\* Passes with > for >=
MutPassesStrict(actual, threshold) == actual.n > threshold.n

\* actual >= threshold
Passes(actual, threshold) == actual.n >= threshold.n

\* the checks that append to failures
Failures(file) ==
    {c \in CheckKeys :
        LET threshold == GetOrNone(file.thresholds[c])
            actual == GetOrNone(file.overall[c])
        IN  /\ threshold.k # "none"
            /\ (actual.k = "none" \/ ~Passes(actual, threshold))}

\* the code main() exits with
ExitCode(file) ==
    IF ~file.exists THEN 1
    ELSE IF NoResults(file) THEN 1
    ELSE IF Failures(file) # {} THEN 1
    ELSE 0

InitValidate ==
    /\ CoreIdle
    /\ RestIdle
    /\ MetricsIdle
    /\ HistoryIdle
    /\ pc = "validate"
    /\ bench_file \in {NoBenchFile}
                         \cup {BenchFile(t, o, x) : t \in [CheckKeys -> ThresholdValues],
                                                   o \in [CheckKeys -> ResultValues],
                                                   x \in BOOLEAN}
    /\ exit_code = -1
    /\ DatasetIdle
    /\ PdfIdle

\* main(), to its sys.exit
ValidateMain ==
    /\ pc = "validate"
    /\ exit_code' = ExitCode(bench_file)
    /\ pc' = "exited"
    /\ UNCHANGED <<coreVars, restVars, metricsVars, pdfVars, historyVars, bench_file, datasetVars>>

NextValidate == ValidateMain

SpecValidate == InitValidate /\ [][NextValidate]_vars

\* --------------------------------------------------------- evaluate_dataset

MaxFiles == 2
MaxRuns == 2

\* match_transactions as a function: the outer loop from prediction i on
RECURSIVE MatchFrom(_, _, _, _, _)
MatchFrom(preds, gts, i, used, ms) ==
    IF i > Len(preds) THEN ms
    ELSE LET pred == preds[i]
             best == Scan(pred, gts, used, 1, NoBest(pred))
         IN  IF IsMatched(best.match)
             THEN MatchFrom(preds, gts, i + 1, MarkConsumed(used, best.match.gt_idx),
                            EmitMatch(ms, best.match))
             ELSE MatchFrom(preds, gts, i + 1, used, EmitUnmatched(ms, pred))

match_transactions(preds, gts) == MatchFrom(preds, gts, 1, {}, <<>>)

\* for ext in [".pdf", ".jpg", ".jpeg", ".png"]
Extensions == <<".pdf", ".jpg", ".jpeg", ".png">>

\* the content of a *.gt.json file: a JSON list, a JSON object with a
\* "transactions" key, a JSON object that is one transaction, or text that
\* json.load rejects
JsonList(items) ==
    [kind |-> "list", has_transactions |-> FALSE, items |-> items, self |-> AnyPred]
JsonDict(items) ==
    [kind |-> "dict", has_transactions |-> TRUE, items |-> items, self |-> AnyPred]
JsonSingle(rec) ==
    [kind |-> "dict", has_transactions |-> FALSE, items |-> <<>>, self |-> rec]
JsonBad ==
    [kind |-> "bad", has_transactions |-> FALSE, items |-> <<>>, self |-> AnyPred]

\* what the extractor does for a document: it raises, or it returns the
\* transactions, the page numbers of its per-page errors and the page count
ExtractionRaises ==
    [raises |-> TRUE, transactions |-> <<>>, errors |-> <<>>, page_count |-> 0]
Extraction(transactions, errors, page_count) ==
    [raises |-> FALSE, transactions |-> transactions, errors |-> errors,
     page_count |-> page_count]

\* a ground-truth file: the extensions its base name exists under, its
\* content and what the extractor does for its document
GtFile(docs, gt, extraction) == [docs |-> docs, gt |-> gt, extraction |-> extraction]

GtA == Rec(DateIso, Str(TextABC), AbsentText, Num(Amt(28, 100)), AbsentAmt)
GtB == Rec(DateIso, Str(TextCBD), AbsentText, AbsentAmt, Num(Amt(28, 100)))
PredNoisy == Rec(DateJunk, AbsentText, Str(TextNoisy), Num(Amt(5, 0)), AbsentAmt)

\* the ground-truth files the model draws a directory from
DatasetFiles ==
    { GtFile({".pdf"}, JsonList(<<GtA>>), Extraction(<<AnyPred>>, <<>>, 1)),
      GtFile({}, JsonList(<<GtA>>), Extraction(<<AnyPred>>, <<>>, 1)),
      GtFile({".jpg"}, JsonBad, Extraction(<<AnyPred>>, <<>>, 1)),
      GtFile({".jpeg", ".png"}, JsonDict(<<GtA, GtB>>),
             Extraction(<<AnyPred, PredNoisy>>, <<2>>, 2)),
      GtFile({".png"}, JsonSingle(GtA), ExtractionRaises),
      GtFile({".pdf"}, JsonSingle(GtB), Extraction(<<>>, <<>>, 0)) }

\* total_time = time.time() - start
Times == {1, 2}

\* the loop over the extensions from the i-th on: the first candidate that
\* exists, "" for doc_file = None
RECURSIVE FindDocFrom(_, _)
FindDocFrom(f, i) ==
    IF i > Len(Extensions) THEN ""
    ELSE IF Extensions[i] \in f.docs THEN Extensions[i]
    ELSE FindDocFrom(f, i + 1)

\* HasDoc that finds a document for every ground-truth file
MutHasDocAlways(f) == TRUE

\* doc_file is not None
HasDoc(f) == FindDocFrom(f, 1) # ""

\* json.load(f), then ground_truth.get("transactions", [ground_truth]) for a dict
LoadGroundTruth(gt) ==
    IF gt.kind = "list" THEN gt.items
    ELSE IF gt.has_transactions THEN gt.items
    ELSE <<gt.self>>

\* json.load or the extraction raises
Raises(f) == f.gt.kind = "bad" \/ f.extraction.raises

\* MakeEvalResult with an amount_mae that grows with the run time
MutMakeEvalResultTimed(file, extraction, gt, total_time) ==
    LET mt == compute_metrics(match_transactions(extraction.transactions, gt), Len(gt))
    IN  [file |-> file,
         page_count |-> extraction.page_count,
         total_predicted |-> Len(extraction.transactions),
         total_ground_truth |-> Len(gt),
         total_matched |-> mt.matched_count,
         precision |-> mt.precision,
         recall |-> mt.recall,
         f1 |-> mt.f1,
         date_accuracy |-> mt.date_accuracy,
         description_accuracy |-> mt.description_accuracy,
         amount_accuracy |-> mt.amount_accuracy,
         amount_mae |-> FracAdd(mt.amount_mae, Frac(total_time, 1)),
         total_time_s |-> total_time,
         time_per_page_s |->
            IF extraction.page_count # 0
            THEN Frac(total_time, extraction.page_count) ELSE Zero,
         errors |-> extraction.errors]

\* evaluate_file: the EvalResult of a document
MakeEvalResult(file, extraction, gt, total_time) ==
    LET mt == compute_metrics(match_transactions(extraction.transactions, gt), Len(gt))
    IN  [file |-> file,
         page_count |-> extraction.page_count,
         total_predicted |-> Len(extraction.transactions),
         total_ground_truth |-> Len(gt),
         total_matched |-> mt.matched_count,
         precision |-> mt.precision,
         recall |-> mt.recall,
         f1 |-> mt.f1,
         date_accuracy |-> mt.date_accuracy,
         description_accuracy |-> mt.description_accuracy,
         amount_accuracy |-> mt.amount_accuracy,
         amount_mae |-> mt.amount_mae,
         total_time_s |-> total_time,
         time_per_page_s |->
            IF extraction.page_count # 0
            THEN Frac(total_time, extraction.page_count) ELSE Zero,
         errors |-> extraction.errors]

\* the record of a result in output_data
OutputRecord(r) ==
    [file |-> r.file,
     page_count |-> r.page_count,
     predicted |-> r.total_predicted,
     ground_truth |-> r.total_ground_truth,
     matched |-> r.total_matched,
     precision |-> r.precision,
     recall |-> r.recall,
     f1 |-> r.f1,
     date_accuracy |-> r.date_accuracy,
     description_accuracy |-> r.description_accuracy,
     amount_accuracy |-> r.amount_accuracy,
     amount_mae |-> r.amount_mae,
     total_time_s |-> r.total_time_s,
     time_per_page_s |-> r.time_per_page_s]

\* if output_file and results: json.dump(output_data, f)
SaveOutput(output, results) ==
    IF output.path /\ results # <<>>
    THEN [output EXCEPT !.written = TRUE,
                        !.data = [i \in 1..Len(results) |-> OutputRecord(results[i])]]
    ELSE output

InitDataset ==
    /\ CoreIdle
    /\ RestIdle
    /\ MetricsIdle
    /\ HistoryIdle
    /\ ValidateIdle
    /\ PdfIdle
    /\ pc = "dataset"
    /\ ds_files \in SeqsUpTo(DatasetFiles, MaxFiles)
    /\ ds_i = 0
    /\ ds_results = <<>>
    /\ ds_output \in {[NoOutput EXCEPT !.path = b] : b \in BOOLEAN}
    /\ ds_run = 1
    /\ ds_first = NoRun

\* an iteration on a ground-truth file without a document: continue
SkipFile ==
    /\ pc = "dataset"
    /\ ds_i < Len(ds_files)
    /\ ~HasDoc(ds_files[ds_i + 1])
    /\ ds_i' = ds_i + 1
    /\ UNCHANGED <<coreVars, restVars, pc, metricsVars, pdfVars, historyVars, validateVars,
                   ds_files, ds_results, ds_output, ds_run, ds_first>>

\* an iteration in which json.load or the extraction raises: the exception
\* leaves evaluate_dataset, and the results list goes with its frame
FileRaises ==
    /\ pc = "dataset"
    /\ ds_i < Len(ds_files)
    /\ HasDoc(ds_files[ds_i + 1])
    /\ Raises(ds_files[ds_i + 1])
    /\ pc' = "raised"
    /\ ds_results' = <<>>
    /\ UNCHANGED <<coreVars, restVars, metricsVars, pdfVars, historyVars, validateVars,
                   ds_files, ds_i, ds_output, ds_run, ds_first>>

\* an iteration that evaluates the document and appends its result
EvaluateFile ==
    /\ pc = "dataset"
    /\ ds_i < Len(ds_files)
    /\ HasDoc(ds_files[ds_i + 1])
    /\ ~Raises(ds_files[ds_i + 1])
    /\ \E total_time \in Times :
         ds_results' = Append(ds_results,
                              MakeEvalResult(ds_i + 1, ds_files[ds_i + 1].extraction,
                                             LoadGroundTruth(ds_files[ds_i + 1].gt),
                                             total_time))
    /\ ds_i' = ds_i + 1
    /\ UNCHANGED <<coreVars, restVars, pc, metricsVars, pdfVars, historyVars, validateVars,
                   ds_files, ds_output, ds_run, ds_first>>

\* the end of the loop: save the results and return them
DatasetReturn ==
    /\ pc = "dataset"
    /\ ds_i = Len(ds_files)
    /\ ds_output' = SaveOutput(ds_output, ds_results)
    /\ pc' = "returned"
    /\ UNCHANGED <<coreVars, restVars, metricsVars, pdfVars, historyVars, validateVars,
                   ds_files, ds_i, ds_results, ds_run, ds_first>>

\* evaluate_dataset is run again on the same directory
Rerun ==
    /\ pc \in {"returned", "raised"}
    /\ ds_run < MaxRuns
    /\ ds_first' = IF ds_run = 1
                   THEN [outcome |-> pc, results |-> ds_results, output |-> ds_output]
                   ELSE ds_first
    /\ ds_run' = ds_run + 1
    /\ ds_i' = 0
    /\ ds_results' = <<>>
    /\ pc' = "dataset"
    /\ UNCHANGED <<coreVars, restVars, metricsVars, pdfVars, historyVars, validateVars,
                   ds_files, ds_output>>

NextDataset == SkipFile \/ FileRaises \/ EvaluateFile \/ DatasetReturn \/ Rerun

SpecDataset == InitDataset /\ [][NextDataset]_vars

\* ------------------------------------- extract_pdf and extract_pdf_parallel

MaxPages == 3

\* what _parse_json makes of the model's response for a page: an error, a
\* list of n objects, one object, or a JSON value that is neither (null, a
\* number, a string, a list of numbers)
ParseError == [kind |-> "error", n |-> 0]
ListOf(n) == [kind |-> "list", n |-> n]
OneObject == [kind |-> "dict", n |-> 1]
OtherJson == [kind |-> "other", n |-> 0]

\* the responses the model draws the pages of a document from
Responses == {ParseError, ListOf(0), ListOf(2), OneObject, OtherJson}

\* the doc_type values the extraction is called with
DocTypeHints == {"auto", "bank_statement", "receipt"}

\* extract_pdf: if doc_type == "auto": doc_type = "bank_statement"
ResolveAuto(doc_type) == IF doc_type = "auto" THEN "bank_statement" ELSE doc_type

\* BANK_STATEMENT_PROMPT if doc_type == "bank_statement" else RECEIPT_PROMPT
PromptFor(doc_type) ==
    IF doc_type = "bank_statement" THEN "BANK_STATEMENT_PROMPT" ELSE "RECEIPT_PROMPT"

\* the prompt of extract_pdf, which resolves "auto" first
SerialPrompt(doc_type) == PromptFor(ResolveAuto(doc_type))

\* the prompt of extract_pdf_parallel, which does not
ParallelPrompt(doc_type) == PromptFor(doc_type)

\* a page: the model's response to each prompt for the image of the page.
\* The pages the model draws a document from answer both prompts alike, or
\* answer the bank-statement prompt with a list and the receipt prompt with
\* one object or with text that does not parse.
PageResponses ==
    {[bank_statement |-> r, receipt |-> r] : r \in Responses}
    \cup {[bank_statement |-> ListOf(2), receipt |-> OneObject],
          [bank_statement |-> ListOf(2), receipt |-> ParseError]}

\* the response of the per-page extractor, a function of page and prompt
ResponseTo(page, prompt) ==
    IF prompt = "BANK_STATEMENT_PROMPT" THEN page.bank_statement ELSE page.receipt

\* result.success: error is None
Success(resp) == resp.kind # "error"

\* result.data of a successful page: its transactions, the k-th of page p
\* being [origin p, k], with no "page" key yet
PageData(resp, p) == [k \in 1..resp.n |-> [origin |-> p, k |-> k, page |-> 0]]

\* txn["page"] = page_num + 1
Stamp(txn, page_num) == [txn EXCEPT !.page = page_num + 1]

\* the item assignment on result.data raises TypeError
StampRaises(resp) == resp.kind = "other"

\* the data of a page with every transaction stamped
Stamped(resp, page_num) ==
    LET data == PageData(resp, page_num + 1)
    IN  [k \in 1..Len(data) |-> Stamp(data[k], page_num)]

\* the error record of a page
ErrorRecord(page_num) == [page |-> page_num + 1]

\* the returned mapping: "errors": errors if errors else None
Returned(ret, page_count) ==
    [ret EXCEPT !.errors_none = (ret.errors = <<>>), !.page_count = page_count]

\* _extract_page((img_bytes, page_num, prompt)): the mapping a worker returns,
\* or the TypeError it raises
ExtractPageResult(resp, page_num) ==
    [page |-> page_num + 1,
     success |-> Success(resp),
     raised |-> StampRaises(resp),
     data |-> IF Success(resp) /\ ~StampRaises(resp) THEN Stamped(resp, page_num) ELSE <<>>]

\* the page result for page p among the results
ResultOf(results, p) == CHOOSE r \in results : r.page = p

\* for r in sorted(results, key=lambda x: x["page"]), from page p on
RECURSIVE CollectFrom(_, _, _, _)
CollectFrom(results, p, n, ret) ==
    IF p > n THEN ret
    ELSE LET r == ResultOf(results, p) IN
         IF r.success
         THEN CollectFrom(results, p + 1, n,
                          [ret EXCEPT !.transactions = ret.transactions \o r.data])
         ELSE CollectFrom(results, p + 1, n,
                          [ret EXCEPT !.errors = Append(ret.errors, [page |-> r.page])])

InitPdf ==
    /\ CoreIdle
    /\ RestIdle
    /\ MetricsIdle
    /\ HistoryIdle
    /\ ValidateIdle
    /\ DatasetIdle
    /\ pc = "pdf"
    /\ pdf_pages \in SeqsUpTo(PageResponses, MaxPages)
    /\ pdf_hint \in DocTypeHints
    /\ pdf_parallel \in BOOLEAN
    /\ pdf_i = 0
    /\ pdf_results = {}
    /\ pdf_ret = NoPdfRet

\* extract_pdf: one iteration of `for page_num in range(page_count)`
PdfPage ==
    /\ pc = "pdf" /\ ~pdf_parallel
    /\ pdf_i < Len(pdf_pages)
    /\ LET page_num == pdf_i
           resp == ResponseTo(pdf_pages[pdf_i + 1], SerialPrompt(pdf_hint))
       IN  IF ~Success(resp)
           THEN /\ pdf_ret' = [pdf_ret EXCEPT !.errors = Append(@, ErrorRecord(page_num))]
                /\ pdf_i' = pdf_i + 1
                /\ pc' = pc
           ELSE IF StampRaises(resp)
           THEN /\ pdf_ret' = NoPdfRet
                /\ pdf_i' = pdf_i
                /\ pc' = "pdf_raised"
           ELSE /\ pdf_ret' = [pdf_ret EXCEPT !.transactions = @ \o Stamped(resp, page_num)]
                /\ pdf_i' = pdf_i + 1
                /\ pc' = pc
    /\ UNCHANGED <<coreVars, restVars, metricsVars, historyVars, validateVars, datasetVars,
                   pdf_pages, pdf_hint, pdf_parallel, pdf_results>>

\* extract_pdf: doc.close() and the return
PdfReturn ==
    /\ pc = "pdf" /\ ~pdf_parallel
    /\ pdf_i = Len(pdf_pages)
    /\ pdf_ret' = Returned(pdf_ret, Len(pdf_pages))
    /\ pc' = "pdf_returned"
    /\ UNCHANGED <<coreVars, restVars, metricsVars, historyVars, validateVars, datasetVars,
                   pdf_pages, pdf_hint, pdf_parallel, pdf_i, pdf_results>>

\* extract_pdf_parallel: a worker finishes a page, in any order
ExtractPage ==
    /\ pc = "pdf" /\ pdf_parallel
    /\ \E p \in 1..Len(pdf_pages) :
         /\ \A r \in pdf_results : r.page # p
         /\ pdf_results' =
              pdf_results \cup {ExtractPageResult(ResponseTo(pdf_pages[p],
                                                              ParallelPrompt(pdf_hint)),
                                                   p - 1)}
    /\ UNCHANGED <<coreVars, restVars, pc, metricsVars, historyVars, validateVars, datasetVars,
                   pdf_pages, pdf_hint, pdf_parallel, pdf_i, pdf_ret>>

\* extract_pdf_parallel: the results of all pages are in: a worker's
\* exception is raised again, or the results are collected in page order
PdfCollect ==
    /\ pc = "pdf" /\ pdf_parallel
    /\ Cardinality(pdf_results) = Len(pdf_pages)
    /\ IF \E r \in pdf_results : r.raised
       THEN /\ pdf_ret' = NoPdfRet
            /\ pc' = "pdf_raised"
       ELSE /\ pdf_ret' = Returned(CollectFrom(pdf_results, 1, Len(pdf_pages), NoPdfRet),
                                   Len(pdf_pages))
            /\ pc' = "pdf_returned"
    /\ UNCHANGED <<coreVars, restVars, metricsVars, historyVars, validateVars, datasetVars,
                   pdf_pages, pdf_hint, pdf_parallel, pdf_i, pdf_results>>

NextPdf == PdfPage \/ PdfReturn \/ ExtractPage \/ PdfCollect

SpecPdf == InitPdf /\ [][NextPdf]_vars

\* ------------------------------ concurrent calls of match_transactions

MaxTasks == 2
MaxTaskCalls == 2

\* the argument lists a task calls match_transactions with; every call gets
\* lists of its own
TaskInputs ==
    LET Full == Rec(DateIso, Str(TextABC), AbsentText, Num(Amt(28, 100)), AbsentAmt)
        NoDate == Rec(AbsentDate, Str(TextABC), AbsentText, Num(Amt(28, 100)), AbsentAmt)
        Other == Rec(DateIso, Str(TextCBD), AbsentText, AbsentAmt, AbsentAmt)
        Total == Rec(DateIso, Str(TextCBD), AbsentText, AbsentAmt, Num(Amt(28, 100)))
    IN  { [predicted |-> <<Full, NoDate>>, ground_truth |-> <<Full>>],
          [predicted |-> <<NoDate, Full>>, ground_truth |-> <<Full, Total>>],
          [predicted |-> <<Other>>, ground_truth |-> <<Total, Full>>],
          [predicted |-> <<>>, ground_truth |-> <<Full>>] }

\* a consumed set that starts with an entry left in it
MutFreshUsedStale == {1}

\* used_gt = set()
FreshUsed == {}

InitTasks ==
    /\ CoreIdle
    /\ MetricsIdle
    /\ HistoryIdle
    /\ ValidateIdle
    /\ DatasetIdle
    /\ PdfIdle
    /\ FnIdle
    /\ LookupIdle
    /\ BatchIdle
    /\ pc = "tasks"
    /\ tasks = [t \in 1..MaxTasks |-> NoTask]

\* task t enters match_transactions: matches = [], used_gt = set()
TaskCall(t) ==
    /\ tasks[t].pc \in {"idle", "returned"}
    /\ tasks[t].calls < MaxTaskCalls
    /\ \E input \in TaskInputs :
         tasks' = [tasks EXCEPT ![t] =
                     [predicted |-> input.predicted, ground_truth |-> input.ground_truth,
                      matches |-> <<>>, used_gt |-> FreshUsed, pi |-> 0, pc |-> "match",
                      calls |-> tasks[t].calls + 1]]

\* task t runs one iteration of `for pred in predicted` on its own frame
TaskStep(t) ==
    /\ tasks[t].pc = "match"
    /\ tasks[t].pi < Len(tasks[t].predicted)
    /\ LET f == tasks[t]
           pred == f.predicted[f.pi + 1]
           best == Scan(pred, f.ground_truth, f.used_gt, 1, NoBest(pred))
       IN  IF IsMatched(best.match)
           THEN tasks' = [tasks EXCEPT ![t].matches = EmitMatch(f.matches, best.match),
                                       ![t].used_gt = MarkConsumed(f.used_gt, best.match.gt_idx),
                                       ![t].pi = f.pi + 1]
           ELSE tasks' = [tasks EXCEPT ![t].matches = EmitUnmatched(f.matches, pred),
                                       ![t].pi = f.pi + 1]

\* task t returns its matches
TaskReturn(t) ==
    /\ tasks[t].pc = "match"
    /\ tasks[t].pi = Len(tasks[t].predicted)
    /\ tasks' = [tasks EXCEPT ![t].pc = "returned"]

NextTasks ==
    /\ pc = "tasks"
    /\ \E t \in 1..MaxTasks : TaskCall(t) \/ TaskStep(t) \/ TaskReturn(t)
    /\ UNCHANGED <<coreVars, pc, metricsVars, historyVars, validateVars, datasetVars, pdfVars,
                   fnVars, lookupVars, batchVars>>

SpecTasks == InitTasks /\ [][NextTasks]_vars

\* ------------------------- match_transactions on one pair of records

\* records with the synonym keys present, absent, empty and null
FieldRecords ==
    { Rec(DateIso, Str(TextABC), Str(TextCBD), Num(Amt(28, 100)), Num(Amt(5, 0))),
      Rec(DateIso, AbsentText, Str(TextABC), AbsentAmt, Num(Amt(28, 100))),
      Rec(DateIso, Str(<<>>), Str(TextABC), Num(Amt(28, 100)), AbsentAmt),
      Rec(DateIso, NoneText, Str(TextABC), NoneAmt, Num(Amt(28, 100))),
      Rec(DateIso, Str(TextCBD), AbsentText, Num(Amt(5, 0)), Num(Amt(28, 100))),
      Rec(DateDayFirst, AbsentText, AbsentText, AbsentAmt, AbsentAmt) }

\* match_transactions([pred], [gt]) for one predicted and one ground-truth record
InitFields ==
    /\ \E pred \in FieldRecords : predicted = <<pred>>
    /\ \E gt \in FieldRecords : ground_truth = <<gt>>
    /\ matches = <<>>
    /\ used_gt = {}
    /\ pi = 0
    /\ pc = "match"
    /\ metrics = NoMetrics
    /\ pred_amt = NoneAmt
    /\ gt_amt = NoneAmt
    /\ amt_res = NoAmtRes
    /\ ExtIdle

SpecFields == InitFields /\ [][Next]_vars

\* ------------------------- match_transactions on records that lack a field

DateOther == DateStr("N-N-N", 2024, 2, 1)   \* "2024-02-01"

\* predictions without description and merchant, without date, without
\* amount and total (one of them with an empty description), and a full one
MissingPreds ==
    { Rec(DateIso, AbsentText, AbsentText, Num(Amt(28, 100)), AbsentAmt),
      Rec(AbsentDate, Str(TextABC), AbsentText, Num(Amt(28, 100)), AbsentAmt),
      Rec(DateIso, Str(TextABC), AbsentText, AbsentAmt, AbsentAmt),
      Rec(DateIso, Str(<<>>), AbsentText, AbsentAmt, AbsentAmt),
      Rec(DateIso, Str(TextABC), AbsentText, Num(Amt(28, 100)), AbsentAmt) }

MissingGts ==
    { Rec(DateIso, Str(TextABC), AbsentText, Num(Amt(28, 100)), AbsentAmt),
      Rec(DateIso, Str(<<>>), AbsentText, Num(Amt(28, 100)), AbsentAmt),
      Rec(DateOther, Str(TextCBD), AbsentText, Num(Amt(5, 0)), AbsentAmt) }

InitMissing ==
    /\ predicted \in SeqsUpTo(MissingPreds, MaxPred)
    /\ ground_truth \in SeqsUpTo(MissingGts, MaxGt)
    /\ matches = <<>>
    /\ used_gt = {}
    /\ pi = 0
    /\ pc = "match"
    /\ metrics = NoMetrics
    /\ pred_amt = NoneAmt
    /\ gt_amt = NoneAmt
    /\ amt_res = NoAmtRes
    /\ ExtIdle

SpecMissing == InitMissing /\ [][Next]_vars

\* ------------------------------------- normalize_date as a pure function

\* the date strings normalize_date is applied to: every shape with numbers
\* that are days, months, years or none of these, a string of no shape,
\* the empty string and None
DateInputs ==
    {DateStr(shape, x, y, z) :
        shape \in {"N-N-N", "N/N/N", "N b N", "N B N"},
        x \in {1, 3, 13, 29, 31, 2023, 2024},
        y \in {1, 2, 4, 13},
        z \in {3, 29, 30, 31, 2023, 2024}}
    \cup {DateJunk, EmptyDateStr, NoneDate}

InitDate ==
    /\ CoreIdle
    /\ MetricsIdle
    /\ HistoryIdle
    /\ ValidateIdle
    /\ DatasetIdle
    /\ PdfIdle
    /\ TasksIdle
    /\ LookupIdle
    /\ BatchIdle
    /\ pc = "date"
    /\ nd_in \in DateInputs
    /\ nd_out = NoneDate
    /\ fz_pred = NoneText
    /\ fz_truth = NoneText
    /\ fz_out = NoScore

\* normalize_date(date_str)
NormalizeDate ==
    /\ pc = "date"
    /\ nd_out' = normalize_date(nd_in)
    /\ pc' = "normalized"
    /\ UNCHANGED <<coreVars, metricsVars, historyVars, validateVars, datasetVars, pdfVars,
                   taskVars, lookupVars, batchVars, nd_in, fz_pred, fz_truth, fz_out>>

NextDate == NormalizeDate

SpecDate == InitDate /\ [][NextDate]_vars

\* --------------------------------- fuzzy_match_score as a pure function

\* the texts fuzzy_match_score is applied to: None, "", "a b c", "c b d",
\* "a b", " A  b c#", "#", "# a", "a - b", "# #", "d"
TextInputs ==
    { NoneText, Str(<<>>), Str(TextABC), Str(TextCBD), Str(TextAB), Str(TextNoisy),
      Str(<<"#">>), Str(<<"#", " ", "a">>), Str(<<"a", " ", "-", " ", "b">>),
      Str(<<"#", " ", "#">>), Str(<<"d">>) }

InitFuzzy ==
    /\ CoreIdle
    /\ MetricsIdle
    /\ HistoryIdle
    /\ ValidateIdle
    /\ DatasetIdle
    /\ PdfIdle
    /\ TasksIdle
    /\ LookupIdle
    /\ BatchIdle
    /\ pc = "fuzzy"
    /\ nd_in = NoneDate
    /\ nd_out = NoneDate
    /\ fz_pred \in TextInputs
    /\ fz_truth \in TextInputs
    /\ fz_out = NoScore

\* fuzzy_match_score(pred, truth)
FuzzyScore ==
    /\ pc = "fuzzy"
    /\ fz_out' = fuzzy_match_score(fz_pred, fz_truth)
    /\ pc' = "scored"
    /\ UNCHANGED <<coreVars, metricsVars, historyVars, validateVars, datasetVars, pdfVars,
                   taskVars, lookupVars, batchVars, nd_in, nd_out, fz_pred, fz_truth>>

NextFuzzy == FuzzyScore

SpecFuzzy == InitFuzzy /\ [][NextFuzzy]_vars

\* ------------------------- evaluate_dataset: the companion document lookup

DotGt == <<".", "g", "t">>

\* s.replace(pat, ""): s with every occurrence of pat removed, left to right
RECURSIVE RemoveAll(_, _)
RemoveAll(s, pat) ==
    IF Len(s) < Len(pat) THEN s
    ELSE IF SubSeq(s, 1, Len(pat)) = pat
         THEN RemoveAll(SubSeq(s, Len(pat) + 1, Len(s)), pat)
         ELSE <<Head(s)>> \o RemoveAll(Tail(s), pat)

\* base_name = gt_file.stem.replace(".gt", "")
BaseName(stem) == RemoveAll(stem, DotGt)

\* test_dir / f"{base_name}{ext}"
DocName(base, ext) == [base |-> base, ext |-> ext]

\* the stems of the files that glob("*.gt.json") yields: "a.gt", "a.gt.b.gt",
\* "a.gtx.gt" and "b.gt.gt"
LookupStems ==
    { <<"a">> \o DotGt,
      <<"a">> \o DotGt \o <<".", "b">> \o DotGt,
      <<"a">> \o DotGt \o <<"x">> \o DotGt,
      <<"b">> \o DotGt \o DotGt }

\* the documents a directory may hold next to the file with that stem: ones
\* named as the stem less its ".gt" ending, and ones named as the stem
\* with every ".gt" removed, under any of the extensions
NearbyDocs(stem) ==
    {DocName(base, Extensions[i]) :
        base \in {SubSeq(stem, 1, Len(stem) - Len(DotGt)), RemoveAll(stem, DotGt)},
        i \in 1..Len(Extensions)}

\* for ext in [".pdf", ".jpg", ".jpeg", ".png"], from the i-th on: the first
\* candidate that exists, NoDoc for doc_file = None
RECURSIVE LookupFrom(_, _, _)
LookupFrom(base_name, dir, i) ==
    IF i > Len(Extensions) THEN NoDoc
    ELSE IF DocName(base_name, Extensions[i]) \in dir
         THEN <<DocName(base_name, Extensions[i])>>
         ELSE LookupFrom(base_name, dir, i + 1)

InitLookup ==
    /\ CoreIdle
    /\ MetricsIdle
    /\ HistoryIdle
    /\ ValidateIdle
    /\ DatasetIdle
    /\ PdfIdle
    /\ TasksIdle
    /\ FnIdle
    /\ BatchIdle
    /\ pc = "lookup"
    /\ lk_stem \in LookupStems
    /\ lk_dir \in SUBSET NearbyDocs(lk_stem)
    /\ lk_doc = NoDoc

\* evaluate_dataset: base_name and the loop over the extensions
LookupDoc ==
    /\ pc = "lookup"
    /\ lk_doc' = LookupFrom(BaseName(lk_stem), lk_dir, 1)
    /\ pc' = "looked"
    /\ UNCHANGED <<coreVars, metricsVars, historyVars, validateVars, datasetVars, pdfVars,
                   taskVars, fnVars, batchVars, lk_stem, lk_dir>>

NextLookup == LookupDoc

SpecLookup == InitLookup /\ [][NextLookup]_vars

\* ------------------------------------------- main.py: extract_batch

MaxUploads == 2

\* class DocumentType(str, Enum)
DocumentTypes == {"receipt", "bank_statement", "invoice"}

\* the values the document_type form field is sent with
FormTypes == DocumentTypes \cup {"auto"}

\* what an uploaded file is: a document the model extracts from, an empty
\* file, bytes that are no image, or a document the model fails on
UploadKinds == {"ok", "empty", "invalid_image", "model_fails"}

\* extract_document(file, document_type): the response it returns, or the
\* status of the HTTPException it raises
ExtractDocument(kind, document_type) ==
    IF document_type \notin DocumentTypes THEN [raises |-> TRUE, status |-> 400]
    ELSE IF kind = "empty" THEN [raises |-> TRUE, status |-> 400]
    ELSE IF kind = "invalid_image" THEN [raises |-> TRUE, status |-> 400]
    ELSE IF kind = "model_fails" THEN [raises |-> TRUE, status |-> 500]
    ELSE [raises |-> FALSE, status |-> 200]

\* the ExtractionResponse of a file that was extracted
Extracted(i, document_type) ==
    [file |-> i, transactions |-> TRUE, warnings |-> <<>>, document_type |-> document_type]

\* the error result of the except branch, its warning naming file i
Placeholder(i, document_type) ==
    [file |-> i, transactions |-> FALSE, warnings |-> <<i>>, document_type |-> document_type]

\* DocumentType(document_type) raises ValueError
PlaceholderRaises(document_type) == document_type \notin DocumentTypes

InitBatch ==
    /\ CoreIdle
    /\ MetricsIdle
    /\ HistoryIdle
    /\ ValidateIdle
    /\ DatasetIdle
    /\ PdfIdle
    /\ TasksIdle
    /\ FnIdle
    /\ LookupIdle
    /\ pc = "batch"
    /\ bt_files \in SeqsUpTo(UploadKinds, MaxUploads)
    /\ bt_type \in FormTypes
    /\ bt_i = 0
    /\ bt_results = <<>>

\* one iteration of `for file in files`: the response is appended, or the
\* HTTPException is caught and the error result appended, or building the
\* error result raises and the exception leaves extract_batch
BatchFile ==
    /\ pc = "batch"
    /\ bt_i < Len(bt_files)
    /\ LET r == ExtractDocument(bt_files[bt_i + 1], bt_type) IN
       IF ~r.raises
       THEN /\ bt_results' = Append(bt_results, Extracted(bt_i + 1, bt_type))
            /\ bt_i' = bt_i + 1
            /\ pc' = pc
       ELSE IF ~PlaceholderRaises(bt_type)
       THEN /\ bt_results' = Append(bt_results, Placeholder(bt_i + 1, bt_type))
            /\ bt_i' = bt_i + 1
            /\ pc' = pc
       ELSE /\ bt_results' = <<>>
            /\ bt_i' = bt_i
            /\ pc' = "batch_raised"
    /\ UNCHANGED <<coreVars, metricsVars, historyVars, validateVars, datasetVars, pdfVars,
                   taskVars, fnVars, lookupVars, bt_files, bt_type>>

\* return results
BatchReturn ==
    /\ pc = "batch"
    /\ bt_i = Len(bt_files)
    /\ pc' = "batch_returned"
    /\ UNCHANGED <<coreVars, metricsVars, historyVars, validateVars, datasetVars, pdfVars,
                   restVars>>

NextBatch == BatchFile \/ BatchReturn

SpecBatch == InitBatch /\ [][NextBatch]_vars

\* ===================================================================
\* Properties of match_transactions (specification Spec)
\* ===================================================================

\* the composite score of a result, from its flags:
\* 0.3 date + 0.4 description + 0.3 amount
WeightedScore(m) ==
    FracAdd(FracAdd(Frac(3 * Flag(m.date_match), 10),
                    FracMul(Frac(4, 10), m.description_match)),
            Frac(3 * Flag(m.amount_match), 10))

\* the composite score of prediction pred against ground-truth entry i
PairScore(pred, i) == WeightedScore(Candidate(pred, ground_truth[i], i).match)

Half == Frac(1, 2)

\* C1: each ground-truth index is referenced by at most one result, and of two
\* identical predictions that both score above the threshold against a single
\* ground-truth entry exactly one result is matched.
C1_WithoutReplacement ==
    /\ \A i, j \in 1..Len(matches) :
         i # j /\ IsMatched(matches[i]) => matches[i].gt_idx # matches[j].gt_idx
    /\ ( /\ pc = "matched"
         /\ Len(predicted) = 2 /\ predicted[1] = predicted[2]
         /\ Len(ground_truth) = 1
         /\ FracLess(Half, PairScore(predicted[1], 1)) )
       => Cardinality({k \in 1..2 : IsMatched(matches[k])}) = 1

C1_Witness ==
    /\ pc = "matched"
    /\ Len(predicted) = 2 /\ predicted[1] = predicted[2]
    /\ Len(ground_truth) = 1
    /\ FracLess(Half, PairScore(predicted[1], 1))
    /\ matches[1].gt_idx = 1
    /\ matches[2].gt_idx = 0

\* C2: the result list has one result per prediction, in input order: while
\* the loop runs it is the results of the predictions handled so far, and at
\* the return its length is len(predicted) and its i-th result carries the
\* i-th prediction (an empty ground-truth list included).
C2_OneResultPerPrediction ==
    /\ Len(matches) = pi
    /\ \A i \in 1..Len(matches) : matches[i].predicted = predicted[i]
    /\ pc \in {"matched", "done"} => Len(matches) = Len(predicted)

C2_Witness ==
    /\ pc = "matched"
    /\ Len(predicted) = 2
    /\ \E i, j \in 1..2 : IsMatched(matches[i]) /\ ~IsMatched(matches[j])

\* the not-yet-consumed ground-truth indices
Available == {i \in 1..Len(ground_truth) : i \notin used_gt}

\* the available entries with the highest composite score for pred
TopScored(pred) ==
    LET sc == [i \in Available |-> PairScore(pred, i)]
    IN  {i \in Available : \A j \in Available : ~FracLess(sc[i], sc[j])}

Min(S) == CHOOSE x \in S : \A y \in S : x <= y

\* C3: the prediction handled by a step is committed if and only if the
\* highest composite score over the not-yet-consumed entries is strictly
\* above 0.5, and then to the lowest index among the entries with that
\* score; a best score of exactly 0.5 (or less) gives an unmatched result.
C3_CommitRule ==
    [][pi' = pi + 1 =>
         LET pred == predicted[pi + 1]
             top == TopScored(pred)
         IN  IF top # {} /\ FracLess(Half, PairScore(pred, Min(top)))
             THEN matches'[pi + 1].gt_idx = Min(top)
             ELSE matches'[pi + 1].gt_idx = 0]_vars

\* a prediction whose best score is exactly 0.5 is unmatched, and the next
\* prediction, which ties at the top on two entries, takes the lower index
C3_Witness ==
    /\ pc = "matched"
    /\ Len(predicted) = 2 /\ Len(ground_truth) = 2
    /\ FracEq(PairScore(predicted[1], 1), Half)
    /\ ~FracLess(PairScore(predicted[1], 1), PairScore(predicted[1], 2))
    /\ matches[1].gt_idx = 0
    /\ FracLess(Half, PairScore(predicted[2], 1))
    /\ FracEq(PairScore(predicted[2], 1), PairScore(predicted[2], 2))
    /\ matches[2].gt_idx = 1

\* C4: matching is greedy in prediction order: a consumed ground-truth entry
\* stays consumed, the results already emitted stay as they are, and the
\* entry a step commits was not consumed before the step.
C4_Greedy ==
    [][/\ used_gt \subseteq used_gt'
       /\ SubSeq(matches', 1, Len(matches)) = matches
       /\ (pi' = pi + 1 /\ IsMatched(matches'[pi + 1]))
            => /\ matches'[pi + 1].gt_idx \notin used_gt
               /\ used_gt' = used_gt \cup {matches'[pi + 1].gt_idx}]_vars

\* the second prediction scores strictly higher against the entry the first
\* one took, and is matched to another entry or left unmatched
C4_Witness ==
    /\ pc = "matched"
    /\ Len(predicted) = 2 /\ Len(ground_truth) >= 1
    /\ matches[1].gt_idx = 1
    /\ FracLess(PairScore(predicted[1], 1), PairScore(predicted[2], 1))
    /\ matches[2].gt_idx # 1

\* some supported format parses the date string
SomeFormatParses(d) == \E i \in 1..Len(Formats) : Parses(d, Formats[i])

\* a date value that was normalized to a canonical date
Canonical(d) == ~Falsy(d) /\ SomeFormatParses(d)

\* what a non-empty date string is compared by: its canonical date under the
\* first format that parses it, and the string itself when none does
ComparedAs(d) ==
    IF SomeFormatParses(d)
    THEN LET i == Min({j \in 1..Len(Formats) : Parses(d, Formats[j])})
         IN  DateStr("N-N-N", FormatFields(Formats[i], d).year,
                     FormatFields(Formats[i], d).month,
                     FormatFields(Formats[i], d).day)
    ELSE d

PredDate(m) == DateOf(m.predicted)
TruthDate(m) == DateOf(ground_truth[m.gt_idx])

\* C5, as stated: the date-match flag of a committed pair is true only when
\* both dates were normalized to a canonical date and the normalized dates
\* are equal.
C5_Original ==
    \A k \in 1..Len(matches) :
        (IsMatched(matches[k]) /\ matches[k].date_match)
            => /\ Canonical(PredDate(matches[k]))
               /\ Canonical(TruthDate(matches[k]))
               /\ ComparedAs(PredDate(matches[k])) = ComparedAs(TruthDate(matches[k]))

\* C5, amended: the date-match flag of a committed pair is true exactly when
\* both dates are non-null, non-empty strings whose normalized values are
\* equal, an unparsed string being normalized to itself: a null or empty date
\* gives false, and two equal unparsed strings give true.
C5_DateMatch ==
    \A k \in 1..Len(matches) :
        IsMatched(matches[k]) =>
            ( matches[k].date_match <=>
                /\ ~Falsy(PredDate(matches[k]))
                /\ ~Falsy(TruthDate(matches[k]))
                /\ ComparedAs(PredDate(matches[k])) = ComparedAs(TruthDate(matches[k])) )

\* a pair of equal unparsed dates is committed with the date-match flag set
C5_Witness ==
    \E k \in 1..Len(matches) :
        /\ IsMatched(matches[k])
        /\ matches[k].date_match
        /\ ~SomeFormatParses(PredDate(matches[k]))
        /\ PredDate(matches[k]) = TruthDate(matches[k])

PredAmount(m) == normalize_amount(AmountOf(m.predicted))
TruthAmount(m) == normalize_amount(AmountOf(ground_truth[m.gt_idx]))

\* a committed pair with both amounts present that no reconciliation rule matched
Unreconciled(m) ==
    /\ IsMatched(m)
    /\ PredAmount(m).k = "num" /\ TruthAmount(m).k = "num"
    /\ ~m.amount_match

\* | |pred| - |truth| |
AbsDifference(m) == Frac(Abs(Abs(PredAmount(m).n) - Abs(TruthAmount(m).n)), 1)

\* C6, as stated: a result committed for a pair with both amounts present
\* that no rule matched carries amount_error 0.
C6_Original ==
    \A k \in 1..Len(matches) :
        Unreconciled(matches[k]) => FracEq(matches[k].amount_error, Zero)

\* the amount error a committed result is expected to carry
ExpectedError(m) ==
    IF PredAmount(m).k # "num" \/ TruthAmount(m).k # "num" THEN Zero
    ELSE IF ~m.amount_match THEN AbsDifference(m)
    ELSE m.amount_error

RECURSIVE SumExpected(_)
SumExpected(ms) ==
    IF ms = <<>> THEN Zero
    ELSE IF IsMatched(Head(ms))
         THEN FracAdd(ExpectedError(Head(ms)), SumExpected(Tail(ms)))
         ELSE SumExpected(Tail(ms))

\* C6, amended: a result committed for a pair with both amounts present that
\* no rule matched is not an amount match and carries the raw absolute
\* difference of the absolute amounts as amount_error (the +infinity sentinel,
\* replaced by 0, is the error of a pair with a null amount only), and that
\* raw difference is averaged into amount_mae.
C6_RawDifferenceKept ==
    /\ \A k \in 1..Len(matches) :
         Unreconciled(matches[k])
            => FracEq(matches[k].amount_error, AbsDifference(matches[k]))
    /\ \A k \in 1..Len(matches) :
         (IsMatched(matches[k])
            /\ (PredAmount(matches[k]).k # "num" \/ TruthAmount(matches[k]).k # "num"))
            => ~matches[k].amount_match /\ FracEq(matches[k].amount_error, Zero)
    /\ (pc = "done" /\ metrics.matched_count > 0)
         => FracEq(FracMul(metrics.amount_mae, Frac(metrics.matched_count, 1)),
                   SumExpected(matches))

\* the metrics average the non-zero raw difference of an unreconciled pair
C6_Witness ==
    /\ pc = "done"
    /\ \E k \in 1..Len(matches) :
         /\ Unreconciled(matches[k])
         /\ FracLess(Zero, matches[k].amount_error)
    /\ FracLess(Zero, metrics.amount_mae)

\* ===================================================================
\* Properties of the amount reconciliation (specification SpecAmount)
\* ===================================================================

\* the reconciliation has run on two non-null amounts
Reconciled == pc = "reconciled" /\ pred_amt.k = "num" /\ gt_amt.k = "num"

PAbs == Abs(pred_amt.n)
GAbs == Abs(gt_amt.n)

\* the condition of rule r of the cascade on |pred| = p and |truth| = g:
\* 2 tight tolerance, 3 relative tolerance, 4 100x, 5 inverse 100x, 6 1000x,
\* 7 inverse 1000x, 8 unit-vs-total
RuleHolds(r, p, g) ==
    CASE r = 2 -> Abs(p - g) < 2
      [] r = 3 -> g # 0 /\ RatioBelow(Abs(p - g), g, 100)
      [] r = 4 -> Abs(p - 100 * g) < 2
      [] r = 5 -> Abs(100 * p - g) < 2
      [] r = 6 -> g > Amt(1000, 0) /\ RatioBelow(Abs(1000 * p - g), g, 100)
      [] r = 7 -> p > Amt(1000, 0) /\ RatioBelow(Abs(p - 1000 * g), p, 100)
      [] r = 8 -> /\ g > Amt(100, 0) /\ p < Amt(1000, 0)
                  /\ \E m \in {2, 3, 4, 5, 10} : RatioBelow(Abs(p * m * 1000 - g), g, 20)

\* the first rule, in the order of the cascade, whose condition holds; 9 for none
FirstRule(p, g) ==
    IF \E r \in 2..8 : RuleHolds(r, p, g)
    THEN Min({r \in 2..8 : RuleHolds(r, p, g)})
    ELSE 9

\* C7, as stated: the amount match flag is the same in both directions.
C7_Original ==
    Reconciled => (amt_res.amount_match <=> Reconcile(gt_amt, pred_amt).amount_match)

\* C7, amended: a match decided by the tight tolerance, a 100x rule or a
\* 1000x rule is a match in the other direction too; a match decided by
\* the relative tolerance (relative to the truth) or by the unit-vs-total rule
\* need not be, so the flag is not symmetric in general.
C7_SymmetricRules ==
    (Reconciled /\ FirstRule(PAbs, GAbs) \in {2, 4, 5, 6, 7})
        => amt_res.amount_match /\ Reconcile(gt_amt, pred_amt).amount_match

\* a match by the 1000x rule whose mirror image matches by the inverse rule
C7_Witness ==
    /\ Reconciled
    /\ FirstRule(PAbs, GAbs) = 6
    /\ PAbs * 1000 # GAbs
    /\ amt_res.amount_match
    /\ FirstRule(GAbs, PAbs) = 7

\* C8: reconciling a non-null amount against itself is a match with error 0.
C8_Reflexive ==
    (Reconciled /\ pred_amt.n = gt_amt.n)
        => amt_res.amount_match /\ FracEq(amt_res.amount_error, Zero)

C8_Witness ==
    /\ Reconciled
    /\ pred_amt.n = gt_amt.n
    /\ pred_amt.n < 0
    /\ amt_res.amount_match
    /\ FracEq(amt_res.amount_error, Zero)

\* C9: the first rule of the cascade whose condition holds decides: a
\* tolerance rule reports the raw absolute difference, a scale rule the
\* difference after the scale correction, and no rule means no match; 2850
\* against 28.50 matches by the 100x rule with error 0.
C9_OrderedCascade ==
    Reconciled =>
        LET p == PAbs
            g == GAbs
            r == FirstRule(p, g)
            e == amt_res.amount_error
        IN  /\ amt_res.amount_match <=> r # 9
            /\ r \in {2, 3} => FracEq(e, Frac(Abs(p - g), 1))
            /\ r = 4 => FracEq(e, Frac(Abs(p - 100 * g), 100))
            /\ r = 5 => FracEq(e, Frac(Abs(100 * p - g), 100))
            /\ r = 6 => FracEq(e, Frac(Abs(1000 * p - g), 1000))
            /\ r = 7 => FracEq(e, Frac(Abs(p - 1000 * g), 1000))
            /\ (pred_amt.n = Amt(2850, 0) /\ gt_amt.n = Amt(28, 100))
                 => r = 4 /\ FracEq(e, Zero)

\* a pair on which the tight tolerance and the inverse 100x rule both hold
\* with different errors, decided by the tight tolerance
C9_Witness ==
    /\ Reconciled
    /\ RuleHolds(2, PAbs, GAbs)
    /\ RuleHolds(5, PAbs, GAbs)
    /\ ~FracEq(Frac(Abs(PAbs - GAbs), 1), Frac(Abs(100 * PAbs - GAbs), 100))
    /\ FracEq(amt_res.amount_error, Frac(Abs(PAbs - GAbs), 1))

\* C10: when no earlier rule matched, |truth| > 100 and |pred| < 1000, the
\* pair is an amount match with error 0 if and only if some multiplier m in
\* {2, 3, 4, 5, 10} has | |pred| m 1000 - |truth| | / |truth| < 0.05, and is
\* not an amount match otherwise.
C10_UnitVsTotal ==
    ( /\ Reconciled
      /\ \A r \in 2..7 : ~RuleHolds(r, PAbs, GAbs)
      /\ GAbs > Amt(100, 0) /\ PAbs < Amt(1000, 0) )
    => LET fits == \E m \in {2, 3, 4, 5, 10} :
                       RatioBelow(Abs(PAbs * m * 1000 - GAbs), GAbs, 20)
       IN  /\ fits <=> (amt_res.amount_match /\ FracEq(amt_res.amount_error, Zero))
           /\ ~fits => ~amt_res.amount_match

\* a unit price whose double is within 5% (and not within 1%) of the total
C10_Witness ==
    /\ Reconciled
    /\ pred_amt.n = Amt(0, 100) /\ gt_amt.n = Amt(1040, 0)
    /\ \A r \in 2..7 : ~RuleHolds(r, PAbs, GAbs)
    /\ amt_res.amount_match
    /\ FracEq(amt_res.amount_error, Zero)

\* ===================================================================
\* Properties of the results and the metrics (specification Spec)
\* ===================================================================

\* a fraction that is a finite number (not float('inf'))
IsFinite(f) == f.den > 0

\* 0 <= f <= 1
InUnit(f) == ~FracLess(f, Zero) /\ ~FracLess(Frac(1, 1), f)

\* C11: every result has a finite, non-negative amount_error and a
\* description score in [0, 1]; an unmatched result has no ground truth, both
\* flags false, description score 0 and amount_error 0; a matched result with
\* a null predicted or ground-truth amount has amount_match false and
\* amount_error 0.
C11_ResultInvariants ==
    \A k \in 1..Len(matches) :
        LET m == matches[k] IN
        /\ IsFinite(m.amount_error) /\ m.amount_error.num >= 0
        /\ IsFinite(m.description_match) /\ InUnit(m.description_match)
        /\ ~IsMatched(m)
             => /\ ~m.date_match /\ ~m.amount_match
                /\ FracEq(m.description_match, Zero)
                /\ FracEq(m.amount_error, Zero)
        /\ (IsMatched(m) /\ (PredAmount(m).k # "num" \/ TruthAmount(m).k # "num"))
             => /\ ~m.amount_match
                /\ m.amount_error = Zero

\* a pair with a null predicted amount is committed, and another prediction
\* is left unmatched
C11_Witness ==
    /\ pc = "matched"
    /\ \E k \in 1..Len(matches) :
         /\ IsMatched(matches[k])
         /\ PredAmount(matches[k]).k # "num"
         /\ matches[k].amount_error = Zero
    /\ \E k \in 1..Len(matches) : ~IsMatched(matches[k])

\* ===================================================================
\* Properties of compute_metrics (specification SpecMetrics)
\* ===================================================================

\* compute_metrics has returned
Measured == pc = "measured"

\* the seven float metrics of a returned mapping
MetricValues(mt) ==
    {mt.precision, mt.recall, mt.f1, mt.date_accuracy,
     mt.description_accuracy, mt.amount_accuracy, mt.amount_mae}

\* the number of results with a ground truth
CountMatched(ms) == Cardinality({k \in 1..Len(ms) : ms[k].gt_idx # 0})

\* C12: an empty matches list gives matched_count 0 and every metric 0
\* whatever ground_truth_count is; no returned value comes from a division by
\* zero, and with ground_truth_count = 0 recall is 0 (and f1 is 0 when
\* precision is 0); with no matched result the three accuracies and
\* amount_mae are 0.
C12_Degenerate ==
    Measured =>
        /\ \A v \in MetricValues(metrics) : IsFinite(v)
        /\ matches = <<>>
             => /\ metrics.matched_count = 0
                /\ \A v \in MetricValues(metrics) : FracEq(v, Zero)
        /\ (matches # <<>> /\ gt_count = 0)
             => /\ FracEq(metrics.recall, Zero)
                /\ FracEq(metrics.precision, Zero) => FracEq(metrics.f1, Zero)
        /\ CountMatched(matches) = 0
             => /\ FracEq(metrics.date_accuracy, Zero)
                /\ FracEq(metrics.description_accuracy, Zero)
                /\ FracEq(metrics.amount_accuracy, Zero)
                /\ FracEq(metrics.amount_mae, Zero)

\* the metrics of an empty list against a non-zero ground-truth count
C12_Witness ==
    /\ Measured
    /\ matches = <<>>
    /\ gt_count > 0
    /\ metrics.matched_count = 0
    /\ FracEq(metrics.recall, Zero)

\* a non-empty list with a matched result against ground_truth_count = 0
C12_WitnessNoGroundTruth ==
    /\ Measured
    /\ CountMatched(matches) > 0
    /\ gt_count = 0
    /\ FracEq(metrics.recall, Zero)
    /\ FracLess(Zero, metrics.precision)

\* C13: for a non-empty list, matched_count is the number of results with a
\* ground truth, precision is matched_count / len(matches), recall is
\* matched_count / ground_truth_count (0 when that is 0) and f1 is
\* 2PR / (P + R) (0 when P + R = 0).
C13_PrecisionRecallF1 ==
    (Measured /\ matches # <<>>) =>
        LET mc == CountMatched(matches)
            P == Frac(mc, Len(matches))
            R == IF gt_count = 0 THEN Zero ELSE Frac(mc, gt_count)
        IN  /\ metrics.matched_count = mc
            /\ FracEq(metrics.precision, P)
            /\ FracEq(metrics.recall, R)
            /\ IF FracEq(FracAdd(P, R), Zero)
               THEN FracEq(metrics.f1, Zero)
               ELSE FracEq(FracMul(metrics.f1, FracAdd(P, R)),
                           FracMul(Frac(2, 1), FracMul(P, R)))

\* two of three results are matched against two ground-truth entries:
\* precision 2/3, recall 1 and f1 4/5
C13_Witness ==
    /\ Measured
    /\ Len(matches) = 3 /\ gt_count = 2
    /\ metrics.matched_count = 2
    /\ FracEq(metrics.precision, Frac(2, 3))
    /\ FracEq(metrics.recall, Frac(1, 1))
    /\ FracEq(metrics.f1, Frac(4, 5))

\* the four per-field values of two mappings are equal
SamePerField(a, b) ==
    /\ FracEq(a.date_accuracy, b.date_accuracy)
    /\ FracEq(a.description_accuracy, b.description_accuracy)
    /\ FracEq(a.amount_accuracy, b.amount_accuracy)
    /\ FracEq(a.amount_mae, b.amount_mae)

\* the list without its unmatched results
RECURSIVE DropUnmatched(_)
DropUnmatched(ms) ==
    IF ms = <<>> THEN <<>>
    ELSE IF Head(ms).gt_idx # 0
         THEN <<Head(ms)>> \o DropUnmatched(Tail(ms))
         ELSE DropUnmatched(Tail(ms))

\* the sum of the description scores of the results with a ground truth
RECURSIVE SumScores(_)
SumScores(ms) ==
    IF ms = <<>> THEN Zero
    ELSE IF Head(ms).gt_idx # 0
         THEN FracAdd(Head(ms).description_match, SumScores(Tail(ms)))
         ELSE SumScores(Tail(ms))

\* C14: the three accuracies and amount_mae are computed over the matched
\* results only: they (and matched_count and recall) are the same for the
\* list with its unmatched results removed and for the list with one more
\* unmatched result; date_accuracy and amount_accuracy are the fraction of
\* matched results with the flag true, and description_accuracy is the mean
\* of the description scores of the matched results.
C14_MatchedOnly ==
    Measured =>
        LET fewer == compute_metrics(DropUnmatched(matches), gt_count)
            more == compute_metrics(Append(matches, Unmatched(AnyPred)), gt_count)
            mc == CountMatched(matches)
            dates == Cardinality({k \in 1..Len(matches) :
                        matches[k].gt_idx # 0 /\ matches[k].date_match})
            amounts == Cardinality({k \in 1..Len(matches) :
                        matches[k].gt_idx # 0 /\ matches[k].amount_match})
        IN  /\ SamePerField(metrics, fewer)
            /\ SamePerField(metrics, more)
            /\ fewer.matched_count = mc /\ more.matched_count = mc
            /\ FracEq(fewer.recall, metrics.recall)
            /\ FracEq(more.recall, metrics.recall)
            /\ mc > 0
                 => /\ FracEq(metrics.date_accuracy, Frac(dates, mc))
                    /\ FracEq(metrics.amount_accuracy, Frac(amounts, mc))
                    /\ FracEq(FracMul(metrics.description_accuracy, Frac(mc, 1)),
                              SumScores(matches))

\* a list of an unmatched result and two matched results with different
\* description scores and date flags: removing the unmatched result changes
\* the precision and leaves a description_accuracy strictly between the scores
C14_Witness ==
    /\ Measured
    /\ Len(matches) = 3 /\ CountMatched(matches) = 2
    /\ gt_count > 0
    /\ FracEq(metrics.date_accuracy, Frac(1, 2))
    /\ FracEq(metrics.description_accuracy, Frac(19, 20))
    /\ ~FracEq(metrics.precision,
               compute_metrics(DropUnmatched(matches), gt_count).precision)

\* ===================================================================
\* Properties of append_history (specification SpecHistory)
\* ===================================================================

\* the last n entries of a sequence (all of it when it has fewer)
LastN(s, n) == IF Len(s) > n THEN SubSeq(s, Len(s) - n + 1, Len(s)) ELSE s

\* after a call the file holds the most recent min(n, 50) of the n runs the
\* history ever held or was given, in order, the run of the call last
HoldsNewest ==
    history_calls > 0 =>
        /\ history_file.exists /\ history_file.has_runs
        /\ Len(history_file.runs) <= 50
        /\ Len(history_file.runs) = Min({Len(history_log), 50})
        /\ history_file.runs = LastN(history_log, 50)
        /\ history_file.runs[Len(history_file.runs)] = Entry(history_calls)

\* a call on a history of 50 runs drops the oldest run, keeps the other 49
\* in order and puts the new run last
EvictsOldest ==
    (history_calls' = history_calls + 1 /\ Len(LoadRuns(history_file)) = 50)
        => /\ Len(history_file'.runs) = 50
           /\ SubSeq(history_file'.runs, 1, 49) = Tail(history_file.runs)
           /\ history_file'.runs[50] = Entry(history_calls')

\* C15: after any sequence of append_history calls the history holds at most
\* 50 runs, and they are the most recent min(n, 50) of the n runs it ever
\* held or was given, in append order, newest last; a call on a history of 50
\* runs evicts exactly the oldest and keeps the other 49 in order.
C15_HistoryCap == []HoldsNewest /\ [][EvictsOldest]_vars

\* the 51st run has been appended to an empty history: run 1 is gone and
\* runs 2..51 are held
C15_Witness ==
    /\ history_calls = 51
    /\ Len(history_log) = 51
    /\ Len(history_file.runs) = 50
    /\ history_file.runs[1] = Entry(2)
    /\ history_file.runs[50] = Entry(51)

\* ===================================================================
\* Properties of validate_benchmarks (specification SpecValidate)
\* ===================================================================

\* main() has exited
Exited == pc = "exited"

\* the metric has a threshold that is a number
HasThreshold(c) == bench_file.thresholds[c].k = "num"

\* the metric has a result that is a number
HasResult(c) == bench_file.overall[c].k = "num"

\* the metric has a threshold and a result below it
BelowThreshold(c) ==
    /\ HasThreshold(c) /\ HasResult(c)
    /\ bench_file.overall[c].n < bench_file.thresholds[c].n

\* the overall results hold no key
OverallEmpty ==
    ~bench_file.other_keys /\ \A c \in CheckKeys : bench_file.overall[c].k = "absent"

\* C16, as stated: the exit code is 1 if some tracked metric with a defined
\* threshold is below it, and 0 otherwise.
C16_Original ==
    Exited => exit_code = (IF \E c \in CheckKeys : BelowThreshold(c) THEN 1 ELSE 0)

\* C16, amended: the exit code is 1 if the benchmark file is missing, if it
\* has no overall results, or if some tracked metric with a defined threshold
\* has no result value or a value below the threshold, and 0 otherwise; a
\* metric with no defined threshold never causes a failure, and a value equal
\* to its threshold passes.
C16_ExitCode ==
    Exited =>
        /\ exit_code \in {0, 1}
        /\ exit_code = 1 <=>
             \/ ~bench_file.exists
             \/ OverallEmpty
             \/ \E c \in CheckKeys : HasThreshold(c) /\ ~HasResult(c)
             \/ \E c \in CheckKeys : BelowThreshold(c)
        /\ ( /\ bench_file.exists /\ ~OverallEmpty
             /\ \A c \in CheckKeys :
                  HasThreshold(c) =>
                      HasResult(c) /\ bench_file.overall[c].n >= bench_file.thresholds[c].n )
           => exit_code = 0

\* no metric is below its threshold, one metric equals its threshold, one
\* without a threshold has a low value, and one with a threshold has no
\* result value: the exit code is 1
C16_Witness ==
    /\ Exited
    /\ bench_file.exists
    /\ ~\E c \in CheckKeys : BelowThreshold(c)
    /\ \E c \in CheckKeys :
         HasThreshold(c) /\ HasResult(c)
            /\ bench_file.overall[c].n = bench_file.thresholds[c].n
    /\ \E c \in CheckKeys : ~HasThreshold(c) /\ bench_file.overall[c] = Num(0)
    /\ \E c \in CheckKeys : HasThreshold(c) /\ ~HasResult(c)
    /\ exit_code = 1

\* every threshold is met, one of them with equality, and a metric without a
\* threshold has a low value: the exit code is 0
C16_WitnessPass ==
    /\ Exited
    /\ \E c \in CheckKeys :
         HasThreshold(c) /\ HasResult(c)
            /\ bench_file.overall[c].n = bench_file.thresholds[c].n
    /\ \E c \in CheckKeys : ~HasThreshold(c) /\ bench_file.overall[c] = Num(0)
    /\ exit_code = 0

\* ===================================================================
\* Properties of evaluate_dataset (specification SpecDataset)
\* ===================================================================

\* the ground-truth files whose document exists under some extension
WithCompanion == {i \in 1..Len(ds_files) : ds_files[i].docs # {}}

\* the returned list has one result per ground-truth file with a companion,
\* in the order of the files
OnePerCompanion ==
    pc = "returned" =>
        /\ Len(ds_results) = Cardinality(WithCompanion)
        /\ \A k \in 1..Len(ds_results) : ds_results[k].file \in WithCompanion
        /\ \A j, k \in 1..Len(ds_results) :
             j < k => ds_results[j].file < ds_results[k].file

\* an exception is never raised on a file without a companion
RaisedOnCompanion == pc = "raised" => (ds_i + 1) \in WithCompanion

\* the iteration on a file without a companion adds no result, raises nothing
\* and moves on to the next file
SkipContinues ==
    ( /\ pc = "dataset" /\ ds_i < Len(ds_files)
      /\ (ds_i + 1) \notin WithCompanion
      /\ <<pc, ds_i, ds_results>>' # <<pc, ds_i, ds_results>> )
    => /\ pc' = "dataset"
       /\ ds_results' = ds_results
       /\ ds_i' = ds_i + 1

Fails(i) == ds_files[i].gt.kind = "bad" \/ ds_files[i].extraction.raises

\* C18, as stated: a failure on one file never terminates the batch, and
\* every file that has a companion and does not fail itself has its result in
\* the returned list, whatever fails before or after it.
C18_Original ==
    /\ pc # "raised"
    /\ pc = "returned" =>
         \A i \in WithCompanion :
            ~Fails(i) => \E k \in 1..Len(ds_results) : ds_results[k].file = i

\* the metric fields of an EvalResult
ResultMetrics(r) ==
    <<r.total_predicted, r.total_ground_truth, r.total_matched, r.precision,
      r.recall, r.f1, r.date_accuracy, r.description_accuracy,
      r.amount_accuracy, r.amount_mae>>

\* the metric fields of a record of the output file
OutputMetrics(o) ==
    <<o.predicted, o.ground_truth, o.matched, o.precision, o.recall, o.f1,
      o.date_accuracy, o.description_accuracy, o.amount_accuracy, o.amount_mae>>

\* a later run has ended
RunAgainEnded == ds_run >= 2 /\ pc \in {"returned", "raised"}

\* C20: a run of evaluate_dataset after the first, on the same directory with
\* the same extractions, ends as the first did with the same metric fields in
\* every per-file result and in every record of the output file; two results
\* for the same predicted and ground-truth lists have the same metric fields.
C20_Reproducible ==
    /\ RunAgainEnded =>
         /\ pc = ds_first.outcome
         /\ Len(ds_results) = Len(ds_first.results)
         /\ \A k \in 1..Len(ds_results) :
              /\ ds_results[k].file = ds_first.results[k].file
              /\ ResultMetrics(ds_results[k]) = ResultMetrics(ds_first.results[k])
         /\ ds_output.written = ds_first.output.written
         /\ Len(ds_output.data) = Len(ds_first.output.data)
         /\ \A k \in 1..Len(ds_output.data) :
              OutputMetrics(ds_output.data[k]) = OutputMetrics(ds_first.output.data[k])
    /\ \A j, k \in 1..Len(ds_results) :
         ( /\ ds_files[ds_results[j].file].extraction.transactions
                = ds_files[ds_results[k].file].extraction.transactions
           /\ LoadGroundTruth(ds_files[ds_results[j].file].gt)
                = LoadGroundTruth(ds_files[ds_results[k].file].gt) )
         => ResultMetrics(ds_results[j]) = ResultMetrics(ds_results[k])

\* the second run took another time for a file than the first, saved its
\* results, and the metrics of that file are those of the first run
C20_Witness ==
    /\ RunAgainEnded
    /\ pc = "returned"
    /\ ds_output.written
    /\ \E k \in 1..Len(ds_results) :
         /\ ds_results[k].total_time_s # ds_first.results[k].total_time_s
         /\ ds_output.data[k].total_time_s # ds_first.output.data[k].total_time_s
         /\ ds_results[k].total_matched > 0
         /\ ResultMetrics(ds_results[k]) = ResultMetrics(ds_first.results[k])

\* ===================================================================
\* Properties of the PDF extraction (specification SpecPdf)
\* ===================================================================

\* the response of page p to the prompt of the extraction under way
PageResponse(p) ==
    ResponseTo(pdf_pages[p],
               IF pdf_parallel THEN ParallelPrompt(pdf_hint) ELSE SerialPrompt(pdf_hint))

\* the pages whose response cannot be parsed, and the successful pages
FailedPages == {p \in 1..Len(pdf_pages) : PageResponse(p).kind = "error"}
SuccessfulPages == {p \in 1..Len(pdf_pages) : PageResponse(p).kind # "error"}

\* C19, as stated: the extraction of a document always returns; a page whose
\* response cannot be parsed gives exactly one error record with its 1-based
\* page number and no transaction, every transaction of every successful
\* page is in the result with its page number, and the successful pages and
\* the error records add up to page_count.
C19_Original ==
    /\ pc # "pdf_raised"
    /\ pc = "pdf_returned" =>
         /\ \A p \in FailedPages :
              /\ Cardinality({e \in 1..Len(pdf_ret.errors) : pdf_ret.errors[e].page = p}) = 1
              /\ \A t \in 1..Len(pdf_ret.transactions) : pdf_ret.transactions[t].page # p
         /\ \A p \in SuccessfulPages : \A k \in 1..PageResponse(p).n :
              \E t \in 1..Len(pdf_ret.transactions) :
                 pdf_ret.transactions[t] = [origin |-> p, k |-> k, page |-> p]
         /\ Cardinality(SuccessfulPages) + Len(pdf_ret.errors) = pdf_ret.page_count

\* ===================================================================
\* Properties of concurrent match_transactions calls (specification SpecTasks)
\* ===================================================================

\* the frames of the calls under way or returned
Calling == {t \in 1..MaxTasks : tasks[t].pc # "idle"}

\* task t has just entered the function
Entered(t) == tasks[t].pc = "match" /\ tasks[t].pi = 0

\* the step leaves the argument lists of every call that goes on as they are
InputsKept ==
    \A t \in 1..MaxTasks :
        (tasks[t].pc = "match" /\ tasks'[t].calls = tasks[t].calls)
            => /\ tasks'[t].predicted = tasks[t].predicted
               /\ tasks'[t].ground_truth = tasks[t].ground_truth

\* the step of one task leaves the frame of every other task as it is
OthersKept ==
    \A t \in 1..MaxTasks :
        tasks'[t] # tasks[t] => \A u \in 1..MaxTasks \ {t} : tasks'[u] = tasks[u]

\* C21: match_transactions mutates none of its inputs and keeps no state
\* between calls: while a call runs its predicted and ground-truth lists stay
\* as they were passed, every call starts with an empty consumed set and an
\* empty result list whatever the earlier calls left, and under every
\* interleaving of the calls each one returns what match_transactions
\* returns for its lists when it runs alone.
C21_NoSharedState ==
    /\ [](\A t \in Calling :
            /\ Entered(t) => tasks[t].used_gt = {} /\ tasks[t].matches = <<>>
            /\ tasks[t].pc = "returned"
                 => tasks[t].matches
                      = match_transactions(tasks[t].predicted, tasks[t].ground_truth))
    /\ [][InputsKept /\ OthersKept]_vars

\* two calls were interleaved, both consumed a ground-truth entry, one of
\* them in its second call, and one has returned with an unmatched result
\* while the other is still running
C21_Witness ==
    /\ tasks[1].pc = "returned" /\ tasks[1].calls = 2
    /\ Len(tasks[1].matches) = 2 /\ tasks[1].matches[2].gt_idx = 0
    /\ tasks[1].used_gt # {}
    /\ tasks[2].pc = "match" /\ tasks[2].pi = 1 /\ tasks[2].used_gt # {}
    /\ tasks[2].predicted # tasks[1].predicted

\* ===================================================================
\* Properties of the field resolution (specification SpecFields)
\* ===================================================================

\* the text the claim says is compared: description whenever the record has
\* the key, merchant only when it has not, "" when it has neither
PreferredText(rec) ==
    IF rec.description.k # "absent" THEN rec.description
    ELSE IF rec.merchant.k # "absent" THEN rec.merchant
    ELSE Str(<<>>)

\* the amount the claim says is compared: amount whenever the record has the
\* key, total only when it has not, None when it has neither
PreferredAmount(rec) ==
    IF rec.amount.k # "absent" THEN rec.amount
    ELSE IF rec.total.k # "absent" THEN rec.total
    ELSE NoneAmt

\* the result of the one pair, from the preferred fields
PreferredResult ==
    LET pred == predicted[1]
        gt == ground_truth[1]
        dm == DateMatch(normalize_date(DateOf(pred)), normalize_date(DateOf(gt)))
        ds == fuzzy_match_score(PreferredText(pred), PreferredText(gt))
        ar == Reconcile(normalize_amount(PreferredAmount(pred)),
                        normalize_amount(PreferredAmount(gt)))
    IN  IF FracLess(Frac(5, 10), Score(dm, ds, ar.amount_match))
        THEN [gt_idx |-> 1, description_match |-> ds, amount_match |-> ar.amount_match]
        ELSE [gt_idx |-> 0, description_match |-> Frac(0, 1), amount_match |-> FALSE]

\* C22: the matcher compares the description of a record whenever the
\* record has one, empty or null included, and its merchant only when the
\* description key is absent; likewise amount before total; this for the
\* predicted and the ground-truth record alike: the result of a pair is the
\* one computed from the fields of that priority.
C22_FieldPriority ==
    pc \in {"matched", "done"}
        => /\ matches[1].gt_idx = PreferredResult.gt_idx
           /\ FracEq(matches[1].description_match, PreferredResult.description_match)
           /\ matches[1].amount_match = PreferredResult.amount_match

\* a prediction with an empty description and a merchant was matched on
\* date and amount to an entry whose only text is that merchant, with a
\* description score of 0; and the entry took its amount from total
C22_Witness ==
    /\ pc = "matched"
    /\ predicted[1].description = Str(<<>>) /\ predicted[1].merchant = Str(TextABC)
    /\ ground_truth[1].description.k = "absent" /\ ground_truth[1].merchant = Str(TextABC)
    /\ ground_truth[1].amount.k = "absent" /\ ground_truth[1].total.k = "num"
    /\ matches[1].gt_idx = 1
    /\ matches[1].description_match.num = 0
    /\ matches[1].amount_match

\* ===================================================================
\* Properties of records that lack a field (specification SpecMissing)
\* ===================================================================

LacksDate(rec) == rec.date.k = "absent"
LacksDescription(rec) == rec.description.k = "absent" /\ rec.merchant.k = "absent"
LacksAmount(rec) == rec.amount.k = "absent" /\ rec.total.k = "absent"

\* the record lacks exactly one of date, description, amount
LacksExactlyOne(rec) ==
    Flag(LacksDate(rec)) + Flag(LacksDescription(rec)) + Flag(LacksAmount(rec)) = 1

DatesMatch(pred, gt) ==
    DateMatch(normalize_date(DateOf(pred)), normalize_date(DateOf(gt)))

AmountsMatch(pred, gt) ==
    Reconcile(normalize_amount(AmountOf(pred)), normalize_amount(AmountOf(gt))).amount_match

\* both records have a description and the two strings are equal
DescriptionsEqual(pred, gt) ==
    /\ ~LacksDescription(pred) /\ ~LacksDescription(gt)
    /\ DescOf(pred).k = "str" /\ DescOf(gt).k = "str"
    /\ DescOf(pred).s = DescOf(gt).s

\* the two present fields of the prediction agree with the entry, with
\* descriptions compared by desc_equal(pred, gt)
AgreesFully(pred, gt, desc_equal) ==
    \/ DatesMatch(pred, gt) /\ AmountsMatch(pred, gt)
    \/ desc_equal /\ (DatesMatch(pred, gt) \/ AmountsMatch(pred, gt))

\* the entries no earlier prediction was matched to, when prediction k is handled
Unconsumed(k) ==
    {i \in 1..Len(ground_truth) : \A j \in 1..(k - 1) : matches[j].gt_idx # i}

\* the claim as stated: a prediction lacking one field is matched whenever
\* an entry not yet consumed agrees with its two present fields, equal
\* descriptions of any content included
C23_Original ==
    \A k \in 1..Len(matches) :
        (/\ LacksExactlyOne(predicted[k])
         /\ \E i \in Unconsumed(k) :
              AgreesFully(predicted[k], ground_truth[i],
                          DescriptionsEqual(predicted[k], ground_truth[i])))
            => matches[k].gt_idx # 0

\* equal descriptions that are not empty once normalized
DescriptionsEqualNonEmpty(pred, gt) ==
    DescriptionsEqual(pred, gt) /\ normalize_text(DescOf(pred)) # <<>>

\* C23: a prediction that lacks exactly one of date, description or amount
\* is matched to a ground-truth entry whenever an entry that no earlier
\* prediction consumed agrees with its two present fields: date and amount
\* both match, or the descriptions are equal and not empty after
\* normalization and one of date or amount matches; and the call returns
\* one result for every prediction, whatever fields are missing.
C23_MissingField ==
    /\ \A k \in 1..Len(matches) :
        (/\ LacksExactlyOne(predicted[k])
         /\ \E i \in Unconsumed(k) :
              AgreesFully(predicted[k], ground_truth[i],
                          DescriptionsEqualNonEmpty(predicted[k], ground_truth[i])))
            => matches[k].gt_idx # 0
    /\ pc = "matched" => Len(matches) = Len(predicted)

\* the call returned with a prediction without description matched on date
\* and amount, and one without date matched on description and amount
C23_Witness ==
    /\ pc = "matched"
    /\ Len(matches) = 2
    /\ LacksDescription(predicted[1]) /\ matches[1].gt_idx # 0
    /\ matches[1].date_match /\ matches[1].amount_match
    /\ LacksDate(predicted[2]) /\ matches[2].gt_idx # 0
    /\ ~matches[2].date_match /\ matches[2].amount_match
    /\ matches[2].description_match.num = matches[2].description_match.den

\* ===================================================================
\* Properties of normalize_date (specification SpecDate)
\* ===================================================================

\* the order of the formats: ISO, day-first slash, month-first slash,
\* ISO-slash, day-first dash, day abbreviated-month year, day full-month year
ClaimedOrder ==
    <<"%Y-%m-%d", "%d/%m/%Y", "%m/%d/%Y", "%Y/%m/%d", "%d-%m-%Y", "%d %b %Y", "%d %B %Y">>

\* the positions of the formats that parse the string
ParsingFormats(s) == {i \in 1..Len(ClaimedOrder) : Parses(s, ClaimedOrder[i])}

\* the date the earliest format that parses the string reads from it
FirstParse(s) ==
    LET i == CHOOSE j \in ParsingFormats(s) : \A k \in ParsingFormats(s) : j <= k
    IN  FormatFields(ClaimedOrder[i], s)

\* the string is YYYY-MM-DD with the given year, month and day
IsIso(d, year, month, day) ==
    d.k = "str" /\ d.shape = "N-N-N" /\ d.x = year /\ d.y = month /\ d.z = day

\* a slash date that is a date both day-first and month-first
Ambiguous(s) ==
    s.k = "str" /\ s.shape = "N/N/N" /\ Parses(s, "%d/%m/%Y") /\ Parses(s, "%m/%d/%Y")

\* C24: normalize_date returns None for None and for the empty string; for
\* any other string the date read by the first format, in the fixed order
\* above, that parses it, written as YYYY-MM-DD, so that a slash date valid
\* both day-first and month-first is read day-first; and the string itself,
\* unchanged, when no format parses it.
C24_FormatOrder ==
    pc = "normalized" =>
        /\ (nd_in.k # "str" \/ nd_in.shape = "empty") => nd_out = NoneDate
        /\ (nd_in.k = "str" /\ nd_in.shape # "empty") =>
              IF ParsingFormats(nd_in) = {}
              THEN nd_out = nd_in
              ELSE IsIso(nd_out, FirstParse(nd_in).year, FirstParse(nd_in).month,
                         FirstParse(nd_in).day)
        /\ Ambiguous(nd_in) => IsIso(nd_out, nd_in.z, nd_in.y, nd_in.x)

\* 03/04/2024 was normalized to 2024-04-03
C24_Witness ==
    /\ pc = "normalized"
    /\ nd_in = DateStr("N/N/N", 3, 4, 2024)
    /\ nd_out = DateStr("N-N-N", 2024, 4, 3)

\* 29/02/2023, which no format parses, was returned as it is
C24_WitnessUnparsed ==
    /\ pc = "normalized"
    /\ nd_in = DateStr("N/N/N", 29, 2, 2023)
    /\ nd_out = nd_in

\* ===================================================================
\* Properties of fuzzy_match_score (specification SpecFuzzy)
\* ===================================================================

\* text a occurs in text b
OccursIn(a, b) == \E i \in 1..(Len(b) - Len(a) + 1) : \A k \in 1..Len(a) : b[i + k - 1] = a[k]

\* the whitespace-delimited tokens of a text: its maximal runs without a space
TokenSet(s) ==
    {SubSeq(s, i, j) : <<i, j>> \in
        {ij \in (1..Len(s)) \X (1..Len(s)) :
            /\ ij[1] <= ij[2]
            /\ \A k \in ij[1]..ij[2] : s[k] # " "
            /\ (ij[1] = 1 \/ s[ij[1] - 1] = " ")
            /\ (ij[2] = Len(s) \/ s[ij[2] + 1] = " ")}}

\* the score the tiers give for two normalized texts
TierScore(p, t) ==
    IF p = <<>> \/ t = <<>> THEN Frac(0, 1)
    ELSE IF p = t THEN Frac(1, 1)
    ELSE IF OccursIn(p, t) \/ OccursIn(t, p) THEN Frac(9, 10)
    ELSE Frac(Cardinality(TokenSet(p) \cap TokenSet(t)),
              Cardinality(TokenSet(p) \cup TokenSet(t)))

\* C25: fuzzy_match_score returns a value in [0, 1] given by tiers over the
\* normalized texts: 0 if either is empty, 1 if they are equal, 0.9 if one
\* occurs in the other, else the size of the intersection of their token
\* sets over the size of the union; 0.5 for "a b c" against "c b d".
C25_Tiers ==
    pc = "scored" =>
        /\ fz_out.den > 0 /\ 0 <= fz_out.num /\ fz_out.num <= fz_out.den
        /\ FracEq(fz_out, TierScore(normalize_text(fz_pred), normalize_text(fz_truth)))
        /\ (fz_pred = Str(TextABC) /\ fz_truth = Str(TextCBD)) => FracEq(fz_out, Frac(1, 2))

\* "a b c" against "c b d" was scored 0.5
C25_Witness ==
    /\ pc = "scored"
    /\ fz_pred = Str(TextABC) /\ fz_truth = Str(TextCBD)
    /\ FracEq(fz_out, Frac(1, 2))

\* each of the other tiers was taken: an empty normalized text, equal
\* texts, and a text that occurs in the other
C25_WitnessEmpty ==
    pc = "scored" /\ fz_pred = Str(<<"#">>) /\ fz_truth = Str(TextAB) /\ fz_out.num = 0

C25_WitnessEqual ==
    pc = "scored" /\ fz_pred = Str(TextNoisy) /\ fz_truth = Str(TextABC) /\ FracEq(fz_out, Frac(1, 1))

C25_WitnessSubstring ==
    pc = "scored" /\ fz_pred = Str(TextAB) /\ fz_truth = Str(TextABC) /\ FracEq(fz_out, Frac(9, 10))

\* ===================================================================
\* Properties of the companion lookup (specification SpecLookup)
\* ===================================================================

\* <base> of <base>.gt.json: the stem less its trailing ".gt" only
ExactBase(stem) == SubSeq(stem, 1, Len(stem) - Len(DotGt))

\* the positions, in the fixed order, of the extensions <base> exists under
ExistingExts(stem, dir) ==
    {i \in 1..Len(Extensions) : DocName(ExactBase(stem), Extensions[i]) \in dir}

\* C26: the companion of <base>.gt.json is looked up under exactly <base>,
\* a ".gt" elsewhere in the name kept, with the extensions tried in the order
\* .pdf, .jpg, .jpeg, .png and the first existing file chosen: the document
\* found is <base> with the first extension it exists under, and none is
\* found only when <base> exists under no extension.
C26_Original ==
    pc = "looked" =>
        IF ExistingExts(lk_stem, lk_dir) = {}
        THEN lk_doc = NoDoc
        ELSE \E i \in ExistingExts(lk_stem, lk_dir) :
                /\ \A j \in ExistingExts(lk_stem, lk_dir) : i <= j
                /\ lk_doc = <<DocName(ExactBase(lk_stem), Extensions[i])>>

\* ===================================================================
\* Properties of extract_batch (specification SpecBatch)
\* ===================================================================

\* the extraction of file i fails
ExtractionFails(i) == bt_type \notin DocumentTypes \/ bt_files[i] # "ok"

\* C27: extract_batch returns for every request, with exactly one response
\* per uploaded file in upload order; a file whose extraction fails, an
\* invalid document_type included, has a response without transactions and
\* with a warning naming it, and the other files have their own responses.
C27_Original ==
    /\ pc # "batch_raised"
    /\ pc = "batch_returned" =>
          /\ Len(bt_results) = Len(bt_files)
          /\ \A i \in 1..Len(bt_files) :
                /\ bt_results[i].file = i
                /\ ExtractionFails(i) =>
                      ~bt_results[i].transactions /\ bt_results[i].warnings = <<i>>
                /\ ~ExtractionFails(i) => bt_results[i].transactions

\* ===================================================================
\* Further properties of match_transactions (specification Spec)
\* ===================================================================

\* two signals: date and amount, or a description score above 0.5 with one
\* of date and amount
TwoSignals(dm, ds, am) ==
    \/ dm /\ am
    \/ ds.num * 2 > ds.den /\ (dm \/ am)

\* the signals of the pair a result commits, computed from its two records
PairSignals(k) ==
    LET pred == predicted[k]
        gt == ground_truth[matches[k].gt_idx]
    IN  [date |-> DateMatch(normalize_date(DateOf(pred)), normalize_date(DateOf(gt))),
         description |-> fuzzy_match_score(DescOf(pred), DescOf(gt)),
         amount |-> Reconcile(normalize_amount(AmountOf(pred)),
                              normalize_amount(AmountOf(gt))).amount_match]

\* C28: no single signal suffices for a match: every matched result has
\* date_match and amount_match, or a description score above 0.5 with
\* date_match or amount_match, in its own fields and in the signals of the
\* pair it commits; a pair that agrees on the description only, on the date
\* only or on the amount only is never committed.
C28_NoSingleSignal ==
    \A k \in 1..Len(matches) :
        matches[k].gt_idx # 0 =>
            /\ TwoSignals(matches[k].date_match, matches[k].description_match,
                          matches[k].amount_match)
            /\ TwoSignals(PairSignals(k).date, PairSignals(k).description,
                          PairSignals(k).amount)

\* the call returned two results: a prediction left unmatched although the
\* one entry has its description, equal once normalized, and a prediction
\* without a date matched to that entry on description and amount
C28_Witness ==
    /\ pc = "matched"
    /\ Len(ground_truth) = 1 /\ Len(matches) = 2
    /\ matches[1].gt_idx = 0
    /\ FracEq(fuzzy_match_score(DescOf(predicted[1]), DescOf(ground_truth[1])), Frac(1, 1))
    /\ matches[2].gt_idx = 1
    /\ ~matches[2].date_match /\ matches[2].amount_match
    /\ FracEq(matches[2].description_match, Frac(1, 1))

\* the values evaluate_file puts in the EvalResult
TotalPredicted == Len(predicted)
TotalGroundTruth == Len(ground_truth)
TotalMatched == metrics.matched_count

\* C29: a result built by evaluate_file from match_transactions followed by
\* compute_metrics has total_matched at most total_predicted and at most
\* total_ground_truth, and precision, recall, f1, date_accuracy,
\* description_accuracy and amount_accuracy in [0, 1].
C29_MetricRanges ==
    pc = "done" =>
        /\ 0 <= TotalMatched
        /\ TotalMatched <= TotalPredicted
        /\ TotalMatched <= TotalGroundTruth
        /\ \A v \in {metrics.precision, metrics.recall, metrics.f1, metrics.date_accuracy,
                     metrics.description_accuracy, metrics.amount_accuracy} :
              IsFinite(v) /\ InUnit(v)

\* two predictions that both agree with the one ground-truth entry were
\* evaluated: one was matched, recall is 1 and precision 1/2
C29_Witness ==
    /\ pc = "done"
    /\ TotalPredicted = 2 /\ TotalGroundTruth = 1 /\ TotalMatched = 1
    /\ matches[1].gt_idx = 1 /\ matches[2].gt_idx = 0
    /\ AboveThreshold(PairScore(predicted[2], 1))
    /\ FracEq(metrics.recall, Frac(1, 1))
    /\ FracEq(metrics.precision, Frac(1, 2))

\* ===================================================================
\* Serial and parallel PDF extraction (specification SpecPdf)
\* ===================================================================

\* LocalExtractor.extract_pdf as a function of the document and the hint:
\* the loop from page number page_num on
RECURSIVE SerialFrom(_, _, _, _)
SerialFrom(pages, prompt, page_num, ret) ==
    IF page_num = Len(pages) THEN [raised |-> FALSE, ret |-> Returned(ret, Len(pages))]
    ELSE LET resp == ResponseTo(pages[page_num + 1], prompt) IN
         IF ~Success(resp)
         THEN SerialFrom(pages, prompt, page_num + 1,
                         [ret EXCEPT !.errors = Append(@, ErrorRecord(page_num))])
         ELSE IF StampRaises(resp) THEN [raised |-> TRUE, ret |-> NoPdfRet]
         ELSE SerialFrom(pages, prompt, page_num + 1,
                         [ret EXCEPT !.transactions = @ \o Stamped(resp, page_num)])

extract_pdf(pages, doc_type) == SerialFrom(pages, SerialPrompt(doc_type), 0, NoPdfRet)

\* C30: for the same document and the same hint, "auto" included,
\* extract_pdf_parallel ends as extract_pdf does, in whatever order its
\* workers finish the pages: it sends the pages the same prompt, and it
\* returns the same transactions in the same order, the same error records
\* and the same page_count.
C30_Original ==
    (pdf_parallel /\ pc \in {"pdf_returned", "pdf_raised"}) =>
        /\ ParallelPrompt(pdf_hint) = SerialPrompt(pdf_hint)
        /\ IF extract_pdf(pdf_pages, pdf_hint).raised
           THEN pc = "pdf_raised"
           ELSE pc = "pdf_returned" /\ pdf_ret = extract_pdf(pdf_pages, pdf_hint).ret

\* the same with the hint given explicitly, which holds
C30_ExplicitHint ==
    (pdf_hint # "auto" /\ pdf_parallel /\ pc \in {"pdf_returned", "pdf_raised"}) =>
        IF extract_pdf(pdf_pages, pdf_hint).raised
        THEN pc = "pdf_raised"
        ELSE pc = "pdf_returned" /\ pdf_ret = extract_pdf(pdf_pages, pdf_hint).ret

\* the serial extraction agrees with its function form
C30_SerialAgrees ==
    (~pdf_parallel /\ pc \in {"pdf_returned", "pdf_raised"}) =>
        IF extract_pdf(pdf_pages, pdf_hint).raised
        THEN pc = "pdf_raised"
        ELSE pc = "pdf_returned" /\ pdf_ret = extract_pdf(pdf_pages, pdf_hint).ret

====
